---- MODULE Spec2Model ----
(***************************************************************************)
(* A model of the EdgeCenter Terraform provider's resource handlers:       *)
(* router, load-balancer pool, load-balancer member and baremetal          *)
(* instance.  One schema.ResourceData `d` of one resource kind lives       *)
(* through a sequence of handler invocations (Terraform runs one           *)
(* operation per resource instance at a time).  A handler is a sequence of *)
(* blocking SDK calls; every SDK call is answered by the environment       *)
(* ("ok", "err", or the typed not-found error "notfound").                 *)
(*                                                                         *)
(* Specifications:                                                         *)
(*   Spec          all handlers, small fixed configurations, each task     *)
(*                 wait taken as one step with its outcome;                *)
(*   SpecWait      the same handlers with the task wait as a polling loop  *)
(*                 over seconds;                                           *)
(*   SpecBm        the baremetal handlers over all interface lists within  *)
(*                 the bounds;                                             *)
(*   SpecRouter    the router handlers over all router configurations      *)
(*                 within the bounds;                                      *)
(*   SpecMember    the member handlers over all pools within the bounds;   *)
(*   SpecConc      two member updates of one pool run in parallel;         *)
(*   SpecImage     the image data source over bounded names and lists;     *)
(*   SpecSecret    the acceptance test of the secret data source;          *)
(*   SpecValidate  the schema validators over bounded inputs.              *)
(***************************************************************************)
EXTENDS Integers, Sequences, FiniteSets, TLC

VARIABLES
    kind,        \* resource type of d: "router", "lbpool", "lbmember", "bm"
    op,          \* handler running: "idle", "create", "read", "update", "delete"
    pc,          \* position inside the running handler
    cont,        \* position the handler continues at after a successful task wait
    id,          \* d.Id(); "" is the unset ID
    diags,       \* diagnostics the handler returned: "none" (running), "ok" (empty), "error", "panic"
    readDiags,   \* diagnostics returned by the resource's Read function when last called
    calls,       \* SDK calls of this invocation, in order: [c |-> name, r |-> result, a |-> argument]
    task,        \* task ID being awaited ("" when none)
    waitSeconds, \* the waitSeconds argument of the running tasks.WaitTaskAndReturnResult
    elapsed,     \* seconds spent in the running wait
    waitResult,  \* how the last wait ended: "none", "success", "timeout", "failure"
    result,      \* value returned by the last WaitTaskAndReturnResult (the extracted ID), "" if none
    ifsOld,      \* baremetal: "interface" in the prior state (old value of d.GetChange)
    ifsNew,      \* baremetal: "interface" in the configuration (d.Get / new value of d.GetChange)
    ifs,         \* baremetal: the list the running loop ranges over
    idx,         \* baremetal: index of the running loop
    currentIfs,  \* baremetal: keys of the interfaces instances.ListInterfacesAll reported
    request,     \* baremetal: Interfaces of the bminstances.CreateOpts sent
    nameChange,  \* baremetal update: d.HasChange("name") with no name template
    mdChange,    \* baremetal update: the attribute that changed ("none", "metadata" or
                 \* "metadata_map") with the keys of its old and its new value
    vsubject,    \* validation: the attribute (or schema) under validation
    vinput,      \* validation: the configured value
    verdict,     \* validation: "pending", "accepted", "rejected"
    sent,        \* validation: Address of the CreatePoolMemberOpts built from an accepted config
    rcfg,        \* router update: what d.HasChange / d.Get / d.GetChange return
    updateOpts,  \* router update: the routers.UpdateOpts being built
    ridx,        \* router update: index of the loop over nifs
    omap,        \* router update: keys (subnet IDs) of omap
    ranged,      \* router update: keys of omap the detach loop has been through
    lastUpdated, \* router update: d.Set("last_updated", ...) was called
    cloud,       \* what the API holds: the pool's members, the images
    dsName,      \* data source: the configured "name"
    dsAttrs,     \* data source: the computed attributes the read has set
    members,     \* member update: Members of the lbpools.UpdateOpts built
    mcfg,        \* member: the configured port, weight, subnet and instance
    procs        \* two member updates running at once: position and Members of each

hvars == <<kind, op, pc, cont, id, diags, readDiags, calls, task, waitSeconds,
           elapsed, waitResult, result>>
bmvars == <<ifsOld, ifsNew, ifs, idx, currentIfs, request, nameChange, mdChange>>
valvars == <<vsubject, vinput, verdict, sent>>
rvars == <<rcfg, updateOpts, ridx, omap, ranged, lastUpdated>>
xvars == <<cloud, dsName, dsAttrs, members, mcfg, procs>>
vars == <<hvars, bmvars, valvars, rvars, xvars>>

(***************************************************************************)
(* Bounds of the model.                                                    *)
(***************************************************************************)
MaxIfs == 2        \* longest "interface" list
MaxFields == 5     \* most dot-separated fields of an address input
WeightSlack == 4   \* how far beyond [minWeight, maxWeight] weight inputs range
MaxSubnets == 2    \* most interfaces of a router configuration
MaxName == 2       \* longest name of an image
MaxImages == 2     \* most images the list call returns
MaxMembers == 2    \* most members of the pool
MaxClock == 3700   \* cap of the wait clock (only a wait without timeout reaches it)

(***************************************************************************)
(* Program constants.                                                      *)
(***************************************************************************)
RouterDeleting == 1200
RouterCreatingTimeoutTwice == 2 * 1200
RouterCreatingTimeout == 1200
LBPoolsCreateTimeout == 2400
BmInstanceDeleting == 1200
BmInstanceCreatingTimeout == 3600
InstanceCreatingTimeout == 1200
SecretCreatingTimeout == 1200
minWeight == 0
maxWeight == 256

Kinds == {"router", "lbpool", "lbmember", "bm"}
ResourceIDs == {"r1", "r2"}
TaskIDs == {"t1"}

(***************************************************************************)
(* Helpers shared by the handlers.                                         *)
(***************************************************************************)
Call(name, r, a) == calls' = Append(calls, [c |-> name, r |-> r, a |-> a])

Return(dg) == pc' = "done" /\ diags' = dg

Goto(l) == pc' = l /\ diags' = diags

AnyFailed == \E i \in 1..Len(calls) : calls[i].r # "ok"

\* d.SetId(v)
SetIdOfTask(v) == id' = task

SetId(v) == id' = v

\* a submission that does not wait for its task
SubmitTaskNoWait(name, a, secs, next) ==
    \E r \in {"ok", "err", "notfound"} :
        /\ Call(name, r, a)
        /\ IF r = "ok"
           THEN /\ \E t \in TaskIDs : task' = t
                /\ waitSeconds' = secs
                /\ elapsed' = 0
                /\ cont' = next
                /\ Goto(next)
           \* a handler returns diag.FromErr(err), the test calls t.Fatal(err)
           ELSE /\ Return(IF op = "test" THEN "fatal" ELSE "error")
                /\ UNCHANGED <<task, waitSeconds, elapsed, cont>>

\* results, err := X(client, ...).Extract(); if err != nil { return diag.FromErr(err) };
\* taskID := results.Tasks[0]; tasks.WaitTaskAndReturnResult(client, taskID, true, secs, retriever)
SubmitTask(name, a, secs, next) ==
    \E r \in {"ok", "err", "notfound"} :
        /\ Call(name, r, a)
        /\ IF r = "ok"
           THEN /\ \E t \in TaskIDs : task' = t
                /\ waitSeconds' = secs
                /\ elapsed' = 0
                /\ cont' = next
                /\ Goto("wait")
           \* a handler returns diag.FromErr(err), the test calls t.Fatal(err)
           ELSE /\ Return(IF op = "test" THEN "fatal" ELSE "error")
                /\ UNCHANGED <<task, waitSeconds, elapsed, cont>>

\* the retriever of the create handlers: tasks.Get, then Extract<X>IDFromTask
RetrieveID(extract, next) ==
    \E g \in {"ok", "err"} :
        IF g # "ok"
        THEN /\ Call("tasks.Get", g, task)
             /\ Return("error")
             /\ result' = ""
        ELSE \E x \in ResourceIDs \cup {""} :
                 /\ calls' = calls \o <<[c |-> "tasks.Get", r |-> "ok", a |-> task],
                                        [c |-> extract, r |-> IF x = "" THEN "err" ELSE "ok", a |-> x]>>
                 /\ result' = x
                 /\ IF x = "" THEN Return("error") ELSE Goto(next)

\* a retriever that takes any error of the Get for the resource being gone
RetrieveGoneOnAnyError(get) ==
    \E g \in {"ok", "err", "notfound"} :
        /\ Call(get, g, id)
        /\ IF g # "ok" THEN Goto("clearid") ELSE Return("error")

\* the retriever of the router, pool and instance delete handlers: Get the deleted
\* resource; only the typed not-found error is the success
RetrieveGone(get) ==
    \E g \in {"ok", "err", "notfound"} :
        /\ Call(get, g, id)
        /\ IF g = "notfound" THEN Goto("clearid") ELSE Return("error")

\* the data sources that are modelled
DataSources == {"image"}

\* no computed attribute set, an API that holds nothing, no member configuration
NoAttrs == [set |-> FALSE, min_disk |-> 0]

NoCloud == [members |-> <<>>, images |-> <<>>]

NoMemberConfig == [protocol_port |-> 0, weight |-> 0, subnet_id |-> "", instance_id |-> ""]

NoProcs == <<>>

\* no change of the instance's metadata
NoMdChange == [attr |-> "none", omd |-> <<>>, nmd |-> <<>>]

\* the zero values of routers.GatewayInfo and routers.UpdateOpts
NoGateway == [type |-> "", network_id |-> ""]

NoRoutes == [nil |-> TRUE, list |-> <<>>]

NoUpdateOpts == [Name |-> "", ExternalGatewayInfo |-> NoGateway, Routes |-> NoRoutes]

(***************************************************************************)
(* Terraform invokes a handler of d, and takes back control when it ends.  *)
(* Create runs only on a resource without ID, the others on one with ID.   *)
(* Every handler starts with CreateClient, which may fail.                 *)
(***************************************************************************)
\* the handlers of the resource kinds that are modelled
Handlers(k) ==
    IF k \in Kinds
    THEN {"create", "read", "update", "delete"}
    ELSE {"read"}

Invoke ==
    /\ op = "idle"
    /\ kind \in Kinds \cup DataSources
    /\ \E o \in (IF kind \in DataSources THEN {"read"}
                ELSE IF id = "" THEN {"create"} ELSE Handlers(kind) \ {"create"}) :
           /\ op' = o
           /\ \E r \in {"ok", "err"} :
                  /\ calls' = <<[c |-> "CreateClient", r |-> r, a |-> ""]>>
                  /\ IF r = "ok" THEN Goto("start") ELSE Return("error")
    /\ task' = "" /\ result' = "" /\ waitResult' = "none" /\ readDiags' = "none"
    /\ elapsed' = 0 /\ waitSeconds' = 0 /\ cont' = ""
    /\ verdict = "accepted"
    /\ sent' = <<>>
    /\ UNCHANGED <<xvars, rvars, kind, id, bmvars, vsubject, vinput, verdict>>

Done ==
    /\ pc = "done"
    /\ diags # "panic"
    /\ op' = "idle" /\ pc' = "idle" /\ diags' = "none" /\ calls' = <<>>
    /\ task' = "" /\ result' = "" /\ waitResult' = "none" /\ readDiags' = "none"
    /\ elapsed' = 0 /\ waitSeconds' = 0 /\ cont' = ""
    /\ ifs' = <<>> /\ idx' = 0 /\ currentIfs' = {} /\ request' = <<>>
    /\ updateOpts' = NoUpdateOpts /\ ridx' = 0 /\ omap' = {} /\ ranged' = {}
    /\ lastUpdated' = FALSE
    /\ dsAttrs' = NoAttrs /\ members' = <<>>
    /\ id' = IF kind \in DataSources THEN "" ELSE id     \* a data source is read into a new d
    /\ UNCHANGED <<cloud, dsName, mcfg, procs, rcfg, kind, ifsOld, ifsNew, nameChange,
                   mdChange, valvars>>

\* Importer.StateContext of the resources, called on `terraform import` for a resource
\* that is not in the state: the import string is parsed and d.SetId gets the ID
\* in it; a string that does not parse is an error and the ID is not set
ImporterStateContext ==
    /\ op = "idle" /\ id = ""
    /\ kind \in Kinds
    /\ \/ \E x \in ResourceIDs : SetId(x)
       \/ UNCHANGED id
    /\ UNCHANGED <<kind, op, pc, cont, diags, readDiags, calls, task, waitSeconds, elapsed,
                   waitResult, result, bmvars, valvars, rvars, xvars>>

\* what the API holds once the awaited task has finished: the pool has the members
\* the update sent
TaskDone(c) ==
    IF kind = "lbmember" /\ op = "update" THEN [c EXCEPT !.members = members] ELSE c

(***************************************************************************)
(* tasks.WaitTaskAndReturnResult up to the call of its retriever, as one   *)
(* step with its outcome.                                                  *)
(***************************************************************************)
WaitTask ==
    /\ pc = "wait"
    /\ \E o \in {"success", "timeout", "failure"} :
           /\ waitResult' = o
           /\ Call("tasks.WaitForStatus", IF o = "success" THEN "ok" ELSE "err", task)
           /\ IF o = "success" THEN Goto(cont)
              ELSE Return(IF op = "test" THEN "fatal" ELSE "error")
           /\ cloud' = IF o = "success" THEN TaskDone(cloud) ELSE cloud
    /\ UNCHANGED <<dsName, dsAttrs, members, mcfg, procs, rvars, kind, op, cont, id, readDiags, task, waitSeconds, elapsed, result,
                   bmvars, valvars>>

(***************************************************************************)
(* The same wait as the polling loop it is: until waitSeconds have passed, *)
(* sleep one second and get the task; a finished task ends the wait with   *)
(* success, a task in error or a failed request ends it with failure, and  *)
(* waitSeconds without either end it with the timeout error.  A negative   *)
(* waitSeconds means no timeout.                                           *)
(***************************************************************************)
WaitForStatus ==
    /\ pc = "wait"
    /\ IF waitSeconds >= 0 /\ elapsed >= waitSeconds
       THEN /\ waitResult' = "timeout"
            /\ Call("tasks.WaitForStatus", "err", task)
            /\ Return("error")
            /\ elapsed' = 0
       ELSE /\ elapsed < MaxClock
            /\ \E st \in {"FINISHED", "ERROR", "RUNNING", "request failed"} :
                   CASE st = "FINISHED" ->
                            /\ waitResult' = "success"
                            /\ Call("tasks.WaitForStatus", "ok", task)
                            /\ Goto(cont)
                            /\ elapsed' = 0
                     [] st = "RUNNING" ->
                            /\ elapsed' = elapsed + 1
                            /\ UNCHANGED <<waitResult, calls, pc, diags>>
                     [] OTHER ->
                            /\ waitResult' = "failure"
                            /\ Call("tasks.WaitForStatus", "err", task)
                            /\ Return("error")
                            /\ elapsed' = 0
    /\ cloud' = IF waitResult' = "success" THEN TaskDone(cloud) ELSE cloud
    /\ UNCHANGED <<dsName, dsAttrs, members, mcfg, procs, rvars, kind, op, cont, id, readDiags, task, waitSeconds, result,
                   bmvars, valvars>>

(***************************************************************************)
(* Router.                                                                 *)
(***************************************************************************)
\* the body of resourceRouterRead after CreateClient: routers.Get, then d.Set
RouterReadBody ==
    \E g \in {"ok", "err", "notfound"} :
        /\ Call("routers.Get", g, id)
        /\ IF g # "ok"
           THEN readDiags' = "error"
           ELSE \/ readDiags' = "ok"
                \* the router has external fixed IPs and extractExternalGatewayInfoMap
                \* of the configured block failed
                \/ Len(rcfg.egi) > 0 /\ readDiags' = "error"
                \* d.Set("interfaces", ...) failed
                \/ readDiags' = "error"

\* the nested call of a Read function: its own CreateClient may fail too
NestedRead(body) ==
    \/ /\ Call("CreateClient", "err", "")
       /\ readDiags' = "error"
    \/ body

resourceRouterCreate ==
    /\ kind = "router" /\ op = "create"
    /\ \/ /\ pc = "start"
          \* extractExternalGatewayInfoMap, extractInterfacesMap or extractHostRoutesMap
          \* of a non-empty configured list failed: no routers.Create
          /\ \/ /\ Len(rcfg.egi) > 0 \/ Len(rcfg.nifs) > 0 \/ Len(rcfg.routes) > 0
                /\ Return("error")
                /\ UNCHANGED <<calls, task, waitSeconds, elapsed, cont>>
             \/ SubmitTask("routers.Create", "", RouterCreatingTimeout, "retrieve")
          /\ UNCHANGED <<id, result, readDiags>>
       \/ /\ pc = "retrieve"
          /\ RetrieveID("routers.ExtractRouterIDFromTask", "setid")
          /\ UNCHANGED <<id, readDiags, task, waitSeconds, elapsed, cont>>
       \/ /\ pc = "setid"
          /\ SetId(result)
          /\ Goto("read")
          /\ UNCHANGED <<calls, result, readDiags, task, waitSeconds, elapsed, cont>>
       \/ /\ pc = "read"
          /\ NestedRead(RouterReadBody)
          /\ Return("ok")
          /\ UNCHANGED <<id, result, task, waitSeconds, elapsed, cont>>
    /\ UNCHANGED <<xvars, rvars, kind, op, waitResult, bmvars, valvars>>

resourceRouterRead ==
    /\ kind = "router" /\ op = "read" /\ pc = "start"
    /\ RouterReadBody
    /\ pc' = "done" /\ diags' = readDiags'
    /\ UNCHANGED <<xvars, rvars, kind, op, cont, id, task, waitSeconds, elapsed, waitResult, result,
                   bmvars, valvars>>

\* the set of the elements of a list
Range(l) == {l[i] : i \in 1..Len(l)}

\* a request that carries the gateway of any type
UpdateOptsGatewayAnyType(cfg) ==
    IF cfg.egiChange /\ Len(cfg.egi) > 0 THEN cfg.egi[1] ELSE NoGateway

\* updateOpts.ExternalGatewayInfo after the block on "external_gateway_info":
\* only a changed, non-empty block of type "manual" is put into the request
UpdateOptsExternalGatewayInfo(cfg) ==
    IF cfg.egiChange /\ Len(cfg.egi) > 0 /\ cfg.egi[1].type = "manual"
    THEN cfg.egi[1]
    ELSE NoGateway

\* updateOpts.Routes after the block on "routes"
UpdateOptsRoutes(cfg) ==
    IF cfg.routesChange THEN [nil |-> FALSE, list |-> cfg.routes] ELSE NoRoutes

\* an omap left empty
OmapKeysNone(oifs) == {}

\* omap[iface.SubnetID] = index for every old interface: the keys of omap
OmapKeys(oifs) == Range(oifs)

\* a call whose error is dropped
RouterCallIgnoringError(name, subnet, next) ==
    \E r \in {"ok", "err"} : Call(name, r, subnet) /\ Goto(next)

\* _, err = routers.Attach / Detach(client, routerID, subnet).Extract();
\* if err != nil { return diag.FromErr(err) }
RouterCall(name, subnet, next) ==
    \E r \in {"ok", "err"} :
        /\ Call(name, r, subnet)
        /\ IF r = "ok" THEN Goto(next) ELSE Return("error")

\* d.HasChange("interfaces"): the set is keyed by the subnet ID
InterfacesChanged(cfg) == Range(cfg.oifs) # Range(cfg.nifs)

resourceRouterUpdate ==
    /\ kind = "router" /\ op = "update"
    /\ \/ /\ pc = "start"                 \* name, external_gateway_info
          /\ \/ /\ rcfg.egiChange /\ Len(rcfg.egi) > 0
                /\ Return("error")        \* extractExternalGatewayInfoMap failed
                /\ UNCHANGED updateOpts
             \/ /\ updateOpts' = [Name |-> IF rcfg.nameChange THEN "name" ELSE "",
                                  ExternalGatewayInfo |-> UpdateOptsExternalGatewayInfo(rcfg),
                                  Routes |-> NoRoutes]
                /\ Goto("interfaces")
          /\ UNCHANGED <<calls, readDiags, ridx, omap, ranged, lastUpdated>>
       \/ /\ pc = "interfaces"            \* d.HasChange("interfaces")
          /\ IF InterfacesChanged(rcfg)
             THEN \/ /\ Return("error")   \* extractInterfacesMap failed
                     /\ UNCHANGED <<ridx, omap>>
                  \/ /\ omap' = OmapKeys(rcfg.oifs)
                     /\ ridx' = 1
                     /\ Goto("attach")
             ELSE Goto("routes") /\ UNCHANGED <<ridx, omap>>
          /\ UNCHANGED <<calls, readDiags, updateOpts, ranged, lastUpdated>>
       \/ /\ pc = "attach"                \* for _, niface := range nifs
          /\ IF ridx > Len(rcfg.nifs)
             THEN Goto("detach") /\ UNCHANGED <<calls, ridx, omap>>
             ELSE IF rcfg.nifs[ridx] \in omap
             THEN /\ omap' = omap \ {rcfg.nifs[ridx]}
                  /\ ridx' = ridx + 1
                  /\ Goto("attach") /\ UNCHANGED calls
             ELSE /\ RouterCall("routers.Attach", rcfg.nifs[ridx], "attach")
                  /\ ridx' = IF pc' = "attach" THEN ridx + 1 ELSE ridx
                  /\ omap' = omap
          /\ UNCHANGED <<readDiags, updateOpts, ranged, lastUpdated>>
       \/ /\ pc = "detach"                \* for _, v := range omap
          /\ IF ranged = omap
             THEN Goto("routes") /\ UNCHANGED <<calls, ranged>>
             ELSE \E v \in omap \ ranged :
                      /\ RouterCall("routers.Detach", v, "detach")
                      /\ ranged' = IF pc' = "detach" THEN ranged \cup {v} ELSE ranged
          /\ UNCHANGED <<readDiags, updateOpts, ridx, omap, lastUpdated>>
       \/ /\ pc = "routes"                \* d.HasChange("routes")
          /\ \/ /\ rcfg.routesChange /\ Len(rcfg.routes) > 0
                /\ Return("error")        \* extractHostRoutesMap failed
                /\ UNCHANGED updateOpts
             \/ /\ updateOpts' = [updateOpts EXCEPT !.Routes = UpdateOptsRoutes(rcfg)]
                /\ Goto("update")
          /\ UNCHANGED <<calls, readDiags, ridx, omap, ranged, lastUpdated>>
       \/ /\ pc = "update"                \* routers.Update, then last_updated
          /\ \E r \in {"ok", "err"} :
                 /\ Call("routers.Update", r, id)
                 /\ IF r = "ok"
                    THEN Goto("finish") /\ lastUpdated' = TRUE
                    ELSE Return("error") /\ lastUpdated' = lastUpdated
          /\ UNCHANGED <<readDiags, updateOpts, ridx, omap, ranged>>
       \/ /\ pc = "finish"                \* return resourceRouterRead(ctx, d, m)
          /\ NestedRead(RouterReadBody)
          /\ pc' = "done" /\ diags' = readDiags'
          /\ UNCHANGED <<updateOpts, ridx, omap, ranged, lastUpdated>>
    /\ UNCHANGED <<xvars, rcfg, kind, op, cont, id, task, waitSeconds, elapsed, waitResult,
                   result, bmvars, valvars>>

resourceRouterDelete ==
    /\ kind = "router" /\ op = "delete"
    /\ \/ /\ pc = "start"
          /\ SubmitTask("routers.Delete", id, RouterDeleting, "retrieve")
          /\ UNCHANGED <<id>>
       \/ /\ pc = "retrieve"
          /\ RetrieveGone("routers.Get")
          /\ UNCHANGED <<id, task, waitSeconds, elapsed, cont>>
       \/ /\ pc = "clearid"
          /\ SetId("")
          /\ Return("ok")
          /\ UNCHANGED <<calls, task, waitSeconds, elapsed, cont>>
    /\ UNCHANGED <<xvars, rvars, kind, op, waitResult, result, readDiags, bmvars, valvars>>

(***************************************************************************)
(* Load-balancer pool.                                                     *)
(***************************************************************************)
\* the body of resourceLBPoolRead after CreateClient: lbpools.Get, then d.Set
LBPoolReadBody ==
    \E g \in {"ok", "err", "notfound"} :
        /\ Call("lbpools.Get", g, id)
        /\ IF g # "ok"
           THEN readDiags' = "error"
           \* the pool has a health monitor or a session persistence and the d.Set of
           \* "health_monitor" or of "session_persistence" failed
           ELSE readDiags' \in {"ok", "error"}

resourceLBPoolCreate ==
    /\ kind = "lbpool" /\ op = "create"
    /\ \/ /\ pc = "start"
          /\ SubmitTask("lbpools.Create", "", LBPoolsCreateTimeout, "retrieve")
          /\ UNCHANGED <<id, result, readDiags>>
       \/ /\ pc = "retrieve"
          /\ RetrieveID("lbpools.ExtractPoolIDFromTask", "setid")
          /\ UNCHANGED <<id, readDiags, task, waitSeconds, elapsed, cont>>
       \/ /\ pc = "setid"
          /\ SetId(result)
          /\ Goto("read")
          /\ UNCHANGED <<calls, result, readDiags, task, waitSeconds, elapsed, cont>>
       \/ /\ pc = "read"
          /\ NestedRead(LBPoolReadBody)
          /\ Return("ok")
          /\ UNCHANGED <<id, result, task, waitSeconds, elapsed, cont>>
    /\ UNCHANGED <<xvars, rvars, kind, op, waitResult, bmvars, valvars>>

resourceLBPoolRead ==
    /\ kind = "lbpool" /\ op = "read" /\ pc = "start"
    /\ LBPoolReadBody
    /\ pc' = "done" /\ diags' = readDiags'
    /\ UNCHANGED <<xvars, rvars, kind, op, cont, id, task, waitSeconds, elapsed, waitResult, result,
                   bmvars, valvars>>

\* lbpools.Delete: an error other than the typed not-found is returned; after the
\* not-found error the handler goes on to results.Tasks[0] with no result to read
\* resourceLBPoolUpdate.  rcfg holds which attributes of the pool differ between the
\* old and the new configuration; updateOpts is the lbpools.UpdateOpts it has built:
\* Name is always the configured name, the other fields are set on d.HasChange.
\* Without a change of lb_algorithm, health_monitor or session_persistence the
\* handler returns the read at once.
resourceLBPoolUpdate ==
    /\ kind = "lbpool" /\ op = "update"
    /\ \/ /\ pc = "start"
          /\ updateOpts' =
                 [Name |-> IF rcfg.nameChange THEN "new" ELSE "old",
                  LBPoolAlgorithm |-> IF rcfg.algChange THEN "new" ELSE "",
                  HealthMonitor |-> IF rcfg.hmChange THEN "new" ELSE "",
                  SessionPersistence |-> IF rcfg.spChange THEN "new" ELSE ""]
          /\ IF ~(rcfg.algChange \/ rcfg.hmChange \/ rcfg.spChange)      \* !change
             THEN /\ NestedRead(LBPoolReadBody)
                  /\ pc' = "done" /\ diags' = readDiags'
                  /\ UNCHANGED <<task, waitSeconds, elapsed, cont>>
             ELSE /\ SubmitTask("lbpools.Update", id, LBPoolsCreateTimeout, "retrieve")
                  /\ UNCHANGED readDiags
          /\ UNCHANGED lastUpdated
       \/ /\ pc = "retrieve"              \* the retriever: tasks.Get only
          /\ \E g \in {"ok", "err"} :
                 /\ Call("tasks.Get", g, task)
                 /\ IF g = "ok" THEN Goto("finish") ELSE Return("error")
          /\ UNCHANGED <<readDiags, updateOpts, lastUpdated, task, waitSeconds, elapsed, cont>>
       \/ /\ pc = "finish"                \* d.Set("last_updated"), return resourceLBPoolRead
          /\ lastUpdated' = TRUE
          /\ NestedRead(LBPoolReadBody)
          /\ pc' = "done" /\ diags' = readDiags'
          /\ UNCHANGED <<updateOpts, task, waitSeconds, elapsed, cont>>
    /\ UNCHANGED <<xvars, rcfg, ridx, omap, ranged, kind, op, id, waitResult, result,
                   bmvars, valvars>>

resourceLBPoolDelete ==
    /\ kind = "lbpool" /\ op = "delete"
    /\ \/ /\ pc = "start"
          /\ \E r \in {"ok", "err", "notfound"} :
                 /\ Call("lbpools.Delete", r, id)
                 /\ IF r = "ok"
                    THEN /\ \E t \in TaskIDs : task' = t
                         /\ waitSeconds' = LBPoolsCreateTimeout
                         /\ elapsed' = 0
                         /\ cont' = "retrieve"
                         /\ Goto("wait")
                    ELSE /\ Return(IF r = "notfound" THEN "panic" ELSE "error")
                         /\ UNCHANGED <<task, waitSeconds, elapsed, cont>>
          /\ UNCHANGED <<id>>
       \/ /\ pc = "retrieve"
          /\ RetrieveGone("lbpools.Get")
          /\ UNCHANGED <<id, task, waitSeconds, elapsed, cont>>
       \/ /\ pc = "clearid"
          /\ SetId("")
          /\ Return("ok")
          /\ UNCHANGED <<calls, task, waitSeconds, elapsed, cont>>
    /\ UNCHANGED <<xvars, rvars, kind, op, waitResult, result, readDiags, bmvars, valvars>>

(***************************************************************************)
(* net.ParseIP on strings without ':' (a string is a sequence of           *)
(* one-character strings).  The first '.' sends the string to parseIPv4;   *)
(* a string with neither '.' nor ':' is no IP.                             *)
(***************************************************************************)
Digits == {"0", "1", "2", "3", "4", "5", "6", "7", "8", "9"}

DigitVal(ch) ==
    CASE ch = "0" -> 0 [] ch = "1" -> 1 [] ch = "2" -> 2 [] ch = "3" -> 3 [] ch = "4" -> 4
      [] ch = "5" -> 5 [] ch = "6" -> 6 [] ch = "7" -> 7 [] ch = "8" -> 8 [] ch = "9" -> 9

big == 16777215
IPv4len == 4
NilIP == [ok |-> FALSE, ip |-> <<>>]

\* dtoi: decimal to integer; the number, the characters consumed, success
RECURSIVE dtoiFrom(_, _, _)
dtoiFrom(s, i, n) ==
    IF i <= Len(s) /\ s[i] \in Digits
    THEN LET m == n * 10 + DigitVal(s[i])
         IN  IF m >= big THEN [n |-> big, c |-> i - 1, ok |-> FALSE]
             ELSE dtoiFrom(s, i + 1, m)
    ELSE IF i = 1 THEN [n |-> 0, c |-> 0, ok |-> FALSE]
         ELSE [n |-> n, c |-> i - 1, ok |-> TRUE]

dtoi(s) == dtoiFrom(s, 1, 0)

RECURSIVE parseIPv4From(_, _, _)
parseIPv4From(s, i, p) ==
    IF i = IPv4len
    THEN IF Len(s) # 0 THEN NilIP ELSE [ok |-> TRUE, ip |-> p]
    ELSE IF Len(s) = 0 THEN NilIP
    ELSE IF i > 0 /\ Head(s) # "." THEN NilIP
    ELSE LET t == IF i > 0 THEN Tail(s) ELSE s
             d == dtoi(t)
         IN  IF ~d.ok \/ d.n > 255 THEN NilIP
             ELSE IF d.c > 1 /\ t[1] = "0" THEN NilIP
             ELSE parseIPv4From(SubSeq(t, d.c + 1, Len(t)), i + 1, Append(p, d.n))

\* return IPv4(p[0], p[1], p[2], p[3]): the 16-byte form with the prefix ::ffff
parseIPv4(s) ==
    LET r == parseIPv4From(s, 0, <<>>)
    IN  IF r.ok
        THEN [ok |-> TRUE, ip |-> <<0, 0, 0, 0, 0, 0, 0, 0, 0, 0, 255, 255>> \o r.ip]
        ELSE NilIP

\* parseIPv6 with its xtoi (hexadecimal to integer).  ip holds the bytes parsed so
\* far (i of the code is Len(ip)), ellipsis the number of bytes before "::" or -1.
parseIPv6(str) ==
    LET IPv6len == 16
        HexDigits == <<"0", "1", "2", "3", "4", "5", "6", "7", "8", "9",
                       "a", "b", "c", "d", "e", "f">>
        Upper == <<"A", "B", "C", "D", "E", "F">>
        IsHex(ch) == \E k \in 1..16 : HexDigits[k] = ch \/ (k <= 6 /\ Upper[k] = ch)
        HexVal(ch) == IF \E k \in 1..6 : Upper[k] = ch
                      THEN 9 + (CHOOSE k \in 1..6 : Upper[k] = ch)
                      ELSE (CHOOSE k \in 1..16 : HexDigits[k] = ch) - 1
        RECURSIVE xtoiFrom(_, _, _)
        xtoiFrom(s, i, n) ==
            IF i <= Len(s) /\ IsHex(s[i])
            THEN LET m == n * 16 + HexVal(s[i])
                 IN  IF m >= big THEN [n |-> 0, c |-> i - 1, ok |-> FALSE]
                     ELSE xtoiFrom(s, i + 1, m)
            ELSE IF i = 1 THEN [n |-> 0, c |-> 0, ok |-> FALSE]
                 ELSE [n |-> n, c |-> i - 1, ok |-> TRUE]
        \* after the loop: the whole string used, the ellipsis expanded
        Finish(s, ip, ellipsis) ==
            IF Len(s) # 0 THEN NilIP
            ELSE IF Len(ip) < IPv6len
            THEN IF ellipsis < 0 THEN NilIP
                 ELSE [ok |-> TRUE,
                       ip |-> SubSeq(ip, 1, ellipsis)
                              \o [k \in 1..(IPv6len - Len(ip)) |-> 0]
                              \o SubSeq(ip, ellipsis + 1, Len(ip))]
            ELSE IF ellipsis >= 0 THEN NilIP
            ELSE [ok |-> TRUE, ip |-> ip]
        RECURSIVE Loop(_, _, _)
        Loop(s, ip, ellipsis) ==
            IF Len(ip) >= IPv6len THEN Finish(s, ip, ellipsis)
            ELSE LET x == xtoiFrom(s, 1, 0)
                 IN  IF ~x.ok \/ x.n > 65535 THEN NilIP
                     ELSE IF x.c < Len(s) /\ s[x.c + 1] = "."      \* trailing IPv4
                     THEN IF ellipsis < 0 /\ Len(ip) # IPv6len - IPv4len THEN NilIP
                          ELSE IF Len(ip) + IPv4len > IPv6len THEN NilIP
                          ELSE LET ip4 == parseIPv4(s)
                               IN  IF ~ip4.ok THEN NilIP
                                   ELSE Finish(<<>>, ip \o SubSeq(ip4.ip, 13, 16), ellipsis)
                     ELSE LET ip2 == ip \o <<x.n \div 256, x.n % 256>>
                              t == SubSeq(s, x.c + 1, Len(s))
                          IN  IF Len(t) = 0 THEN Finish(t, ip2, ellipsis)
                              ELSE IF t[1] # ":" \/ Len(t) = 1 THEN NilIP
                              ELSE IF t[2] # ":" THEN Loop(Tail(t), ip2, ellipsis)
                              ELSE IF ellipsis >= 0 THEN NilIP
                              ELSE IF Len(t) = 2 THEN Finish(<<>>, ip2, Len(ip2))
                              ELSE Loop(SubSeq(t, 3, Len(t)), ip2, Len(ip2))
    IN  IF Len(str) >= 2 /\ str[1] = ":" /\ str[2] = ":"
        THEN IF Len(str) = 2 THEN [ok |-> TRUE, ip |-> [k \in 1..IPv6len |-> 0]]
             ELSE Loop(SubSeq(str, 3, Len(str)), <<>>, 0)
        ELSE Loop(str, <<>>, -1)

\* the first "." or ":" of the string decides between parseIPv4 and parseIPv6
ParseIP(s) ==
    LET seps == {i \in 1..Len(s) : s[i] \in {".", ":"}}
    IN  IF seps = {} THEN NilIP
        ELSE IF s[CHOOSE i \in seps : \A j \in seps : i <= j] = "." THEN parseIPv4(s)
        ELSE parseIPv6(s)

(***************************************************************************)
(* Load-balancer member.                                                   *)
(***************************************************************************)
\* a validator that takes any non-empty string
AddressNonEmpty(v) ==
    IF v # <<>> THEN "ok" ELSE "error"

\* ValidateDiagFunc of "address"
AddressValidateDiagFunc(v) ==
    IF ParseIP(v).ok THEN "ok" ELSE "error"

\* a validator with the lower bound excluded
WeightAboveMin(v) ==
    IF v > minWeight /\ v <= maxWeight THEN "ok" ELSE "error"

\* ValidateDiagFunc of "weight"
WeightValidateDiagFunc(v) ==
    IF v >= minWeight /\ v <= maxWeight THEN "ok" ELSE "error"

\* Address of the lbpools.CreatePoolMemberOpts the create and update handlers build
\* for the managed member
MemberOptsAddress(address) == ParseIP(address)

\* a member list that holds the managed member only
UpdateMembersDropOthers(poolMembers, mid, address, cfg) ==
    LET own == SelectSeq(poolMembers, LAMBDA pm : pm.ID = mid)
    IN  IF own = <<>> THEN <<>>
        ELSE [i \in 1..Len(own) |->
                 [Address |-> MemberOptsAddress(address), ProtocolPort |-> cfg.protocol_port,
                  Weight |-> cfg.weight, SubnetID |-> cfg.subnet_id,
                  InstanceID |-> cfg.instance_id, ID |-> mid]]

\* members of resourceLBMemberUpdate: one CreatePoolMemberOpts per pool member, the
\* pool's values for pm.ID != d.Id(), the configured ones for the managed member
UpdateMembers(poolMembers, mid, address, cfg) ==
    IF poolMembers = <<>> THEN <<>>
    ELSE [i \in 1..Len(poolMembers) |->
             LET pm == poolMembers[i]
             IN  IF pm.ID # mid
                 THEN [Address |-> pm.Address, ProtocolPort |-> pm.ProtocolPort,
                       Weight |-> pm.Weight, SubnetID |-> pm.SubnetID,
                       InstanceID |-> pm.InstanceID, ID |-> pm.ID]
                 ELSE [Address |-> MemberOptsAddress(address),
                       ProtocolPort |-> cfg.protocol_port, Weight |-> cfg.weight,
                       SubnetID |-> cfg.subnet_id, InstanceID |-> cfg.instance_id,
                       ID |-> mid]]

\* the body of resourceLBMemberRead after CreateClient: lbpools.Get of the pool
LBMemberReadBody ==
    \E g \in {"ok", "err", "notfound"} :
        /\ Call("lbpools.Get", g, "pool")
        /\ readDiags' = IF g = "ok" THEN "ok" ELSE "error"

resourceLBMemberCreate ==
    /\ kind = "lbmember" /\ op = "create"
    /\ \/ /\ pc = "start"
          /\ sent' = Append(sent, MemberOptsAddress(vinput))
          /\ SubmitTask("lbpools.CreateMember", "pool", LBPoolsCreateTimeout, "retrieve")
          /\ UNCHANGED <<id, result, readDiags>>
       \/ /\ pc = "retrieve"
          /\ RetrieveID("lbpools.ExtractPoolMemberIDFromTask", "setid")
          /\ UNCHANGED <<id, readDiags, task, waitSeconds, elapsed, cont, sent>>
       \/ /\ pc = "setid"
          /\ SetId(result)
          /\ Goto("read")
          /\ UNCHANGED <<calls, result, readDiags, task, waitSeconds, elapsed, cont, sent>>
       \/ /\ pc = "read"
          /\ NestedRead(LBMemberReadBody)
          /\ Return("ok")
          /\ UNCHANGED <<id, result, task, waitSeconds, elapsed, cont, sent>>
    /\ UNCHANGED <<xvars, rvars, kind, op, waitResult, bmvars, vsubject, vinput, verdict>>

resourceLBMemberRead ==
    /\ kind = "lbmember" /\ op = "read" /\ pc = "start"
    /\ LBMemberReadBody
    /\ pc' = "done" /\ diags' = readDiags'
    /\ UNCHANGED <<xvars, rvars, kind, op, cont, id, task, waitSeconds, elapsed, waitResult, result,
                   bmvars, valvars>>

resourceLBMemberUpdate ==
    /\ kind = "lbmember" /\ op = "update"
    /\ \/ /\ pc = "start"
          /\ \E g \in {"ok", "err", "notfound"} :
                 /\ Call("lbpools.Get", g, "pool")
                 /\ IF g = "ok"
                    THEN /\ Goto("update")
                         /\ members' = UpdateMembers(cloud.members, id, vinput, mcfg)
                         /\ sent' = IF \E i \in 1..Len(cloud.members) :
                                           cloud.members[i].ID = id
                                    THEN Append(sent, MemberOptsAddress(vinput))
                                    ELSE sent
                    ELSE Return("error") /\ UNCHANGED <<sent, members>>
          /\ UNCHANGED <<result, readDiags, task, waitSeconds, elapsed, cont>>
       \/ /\ pc = "update"
          /\ SubmitTask("lbpools.Update", "pool", LBPoolsCreateTimeout, "retrieve")
          /\ UNCHANGED <<result, readDiags, sent, members>>
       \/ /\ pc = "retrieve"
          /\ RetrieveID("lbpools.ExtractPoolMemberIDFromTask", "finish")
          /\ UNCHANGED <<readDiags, task, waitSeconds, elapsed, cont, sent, members>>
       \/ /\ pc = "finish"                \* d.Set("last_updated"), return resourceLBMemberRead
          /\ lastUpdated' = TRUE
          /\ NestedRead(LBMemberReadBody)
          /\ pc' = "done" /\ diags' = readDiags'
          /\ UNCHANGED <<result, task, waitSeconds, elapsed, cont, sent, members>>
    /\ pc # "finish" => lastUpdated' = lastUpdated
    /\ UNCHANGED <<cloud, dsName, dsAttrs, mcfg, procs, rcfg, updateOpts, ridx, omap, ranged,
                   kind, op, id, waitResult,
                   bmvars, vsubject, vinput, verdict>>

\* no error is the typed not-found error
IsDefault404Never(r) == FALSE

\* errors.As(err, &errDefault404) on the error of lbpools.DeleteMember
IsDefault404(r) == r = "notfound"

\* a retriever that never finds the member in the pool
MemberStillExistsNever(poolMembers, mid) == FALSE

\* the loop of the delete retriever: for _, pm := range pool.Members { if pm.ID == mid
MemberStillExists(poolMembers, mid) ==
    \E i \in 1..Len(poolMembers) : poolMembers[i].ID = mid

resourceLBMemberDelete ==
    /\ kind = "lbmember" /\ op = "delete"
    /\ \/ /\ pc = "start"
          /\ cloud' = cloud
          /\ \E r \in {"ok", "err", "notfound"} :
                 /\ Call("lbpools.DeleteMember", r, id)
                 /\ IF r = "ok"
                    THEN /\ \E t \in TaskIDs : task' = t
                         /\ waitSeconds' = LBPoolsCreateTimeout
                         /\ elapsed' = 0
                         /\ cont' = "retrieve"
                         /\ Goto("wait")
                         /\ id' = id
                    ELSE /\ UNCHANGED <<task, waitSeconds, elapsed, cont>>
                         /\ IF IsDefault404(r)
                            THEN SetId("") /\ Return("ok")
                            ELSE id' = id /\ Return("error")
       \/ /\ pc = "retrieve"
          \* by the time of the Get the API has removed the member from the pool, or
          \* it still lists it
          /\ \E g \in {"ok", "err", "notfound"} :
                 /\ Call("lbpools.Get", g, "pool")
                 /\ IF g # "ok"
                    THEN Return("error") /\ cloud' = cloud
                    ELSE \E pm \in {cloud.members,
                                    SelectSeq(cloud.members, LAMBDA x : x.ID # id)} :
                             /\ cloud' = [cloud EXCEPT !.members = pm]
                             /\ IF MemberStillExists(pm, id)
                                THEN Return("error")     \* "pool member %s still exist"
                                ELSE Goto("clearid")
          /\ UNCHANGED <<id, task, waitSeconds, elapsed, cont>>
       \/ /\ pc = "clearid"
          /\ SetId("")
          /\ Return("ok")
          /\ UNCHANGED <<cloud, calls, task, waitSeconds, elapsed, cont>>
    /\ UNCHANGED <<dsName, dsAttrs, members, mcfg, procs, rvars, kind, op, waitResult, result,
                   readDiags, bmvars, valvars>>

(***************************************************************************)
(* Baremetal instance.  An element of "interface" is taken by its key      *)
(* (the type and subnet that identify it), is_parent and order.            *)
(***************************************************************************)
Interfaces == [key : {"a", "b", "c"}, is_parent : BOOLEAN, order : {0, 1}]

\* instanceInterfaces.Less: a trunk (is_parent) interface sorts before the others,
\* then the lower "order"
Less(l, r) ==
    IF l.is_parent /\ ~r.is_parent THEN TRUE
    ELSE IF r.is_parent /\ ~l.is_parent THEN FALSE
    ELSE l.order < r.order

\* sort.Sort on a slice of at most 12 elements is an insertion sort
RECURSIVE InsertLast(_)
InsertLast(s) ==
    IF Len(s) > 1 /\ Less(s[Len(s)], s[Len(s) - 1])
    THEN Append(InsertLast(Append(SubSeq(s, 1, Len(s) - 2), s[Len(s)])), s[Len(s) - 1])
    ELSE s

RECURSIVE insertionSort(_)
insertionSort(s) ==
    IF Len(s) <= 1 THEN s
    ELSE InsertLast(Append(insertionSort(SubSeq(s, 1, Len(s) - 1)), s[Len(s)]))

\* sort.Sort(instanceInterfaces(ifs))
SortInterfaces(s) == insertionSort(s)

\* isInterfaceContains: an interface of the same type and subnet is in the list
isInterfaceContains(iface, list) ==
    \E i \in 1..Len(list) : list[i].key = iface.key

\* isInterfaceAttached: the instance already has an interface on that subnet
isInterfaceAttached(current, iface) == iface.key \in current

\* a request built from the list as configured
CreateOptsInterfacesUnsorted(list) == list

\* Interfaces of the bminstances.CreateOpts: d.Get("interface"), sorted, one
\* InterfaceOpts per element in that order
CreateOptsInterfaces(list) == SortInterfaces(list)

\* the new interfaces in the order resourceBmInstanceUpdate ranges over them to attach
AttachOrder(list) == SortInterfaces(list)

\* no interface is refused
DetachRefusedNever(iface) == FALSE

\* if iface["is_parent"].(bool) { return diag.Errorf("could not detach trunk interface") }
DetachRefused(iface) == iface.is_parent

\* the body of resourceBmInstanceRead after CreateClient
BmInstanceReadBody ==
    \E o \in {"get", "list", "nointerface", "extract", "metadata", "ok"} :
        /\ calls' = calls \o
             (CASE o = "get" -> <<[c |-> "instances.Get", r |-> "err", a |-> id]>>
                [] o = "list" -> <<[c |-> "instances.Get", r |-> "ok", a |-> id],
                                   [c |-> "instances.ListInterfacesAll", r |-> "err", a |-> id]>>
                [] o \in {"nointerface", "extract", "ok"} ->
                                 <<[c |-> "instances.Get", r |-> "ok", a |-> id],
                                   [c |-> "instances.ListInterfacesAll", r |-> "ok", a |-> id]>>
                [] o = "metadata" -> <<[c |-> "instances.Get", r |-> "ok", a |-> id],
                                       [c |-> "instances.ListInterfacesAll", r |-> "ok", a |-> id],
                                       [c |-> "instances.MetadataGet", r |-> "err", a |-> id]>>)
        /\ readDiags' = IF o = "ok" THEN "ok" ELSE "error"

resourceBmInstanceCreate ==
    /\ kind = "bm" /\ op = "create"
    /\ \/ /\ pc = "start"
          /\ request' = CreateOptsInterfaces(ifsNew)
          /\ \/ /\ Return("error")       \* extractKeyValue(metadata) failed
                /\ UNCHANGED <<calls, task, waitSeconds, elapsed, cont>>
             \/ SubmitTask("bminstances.Create", "", BmInstanceCreatingTimeout, "retrieve")
          /\ UNCHANGED <<id, result, readDiags>>
       \/ /\ pc = "retrieve"
          /\ RetrieveID("instances.ExtractInstanceIDFromTask", "setid")
          /\ UNCHANGED <<id, readDiags, task, waitSeconds, elapsed, cont, request>>
       \/ /\ pc = "setid"
          /\ SetId(result)
          /\ Goto("read")
          /\ UNCHANGED <<calls, result, readDiags, task, waitSeconds, elapsed, cont, request>>
       \/ /\ pc = "read"
          /\ NestedRead(BmInstanceReadBody)
          /\ Return("ok")
          /\ UNCHANGED <<id, result, task, waitSeconds, elapsed, cont, request>>
    /\ UNCHANGED <<xvars, rvars, kind, op, waitResult, ifsOld, ifsNew, ifs, idx, currentIfs,
                   nameChange, mdChange, valvars>>

resourceBmInstanceRead ==
    /\ kind = "bm" /\ op = "read" /\ pc = "start"
    /\ BmInstanceReadBody
    /\ pc' = "done" /\ diags' = readDiags'
    /\ UNCHANGED <<xvars, rvars, kind, op, cont, id, task, waitSeconds, elapsed, waitResult, result,
                   bmvars, valvars>>

\* the retriever of the detach and attach waits: tasks.Get
RetrieveTask(next) ==
    \E g \in {"ok", "err"} :
        /\ Call("tasks.Get", g, task)
        /\ IF g = "ok" THEN Goto(next) /\ idx' = idx + 1
           ELSE Return("error") /\ idx' = idx

resourceBmInstanceUpdate ==
    /\ kind = "bm" /\ op = "update"
    /\ \/ /\ pc = "start"                 \* d.HasChange("name")
          /\ IF nameChange
             THEN \E r \in {"ok", "err"} :
                      /\ Call("instances.RenameInstance", r, id)
                      /\ IF r = "ok" THEN Goto("metadata") ELSE Return("error")
             ELSE Goto("metadata") /\ calls' = calls
          /\ UNCHANGED <<ifs, idx, currentIfs, readDiags, task, waitSeconds, elapsed, cont>>
       \/ /\ pc = "metadata"              \* d.HasChange("metadata") / ("metadata_map")
          /\ IF mdChange.attr = "none"
             THEN Goto("interface") /\ UNCHANGED <<ifs, idx>>
             \* omd, nmd := d.GetChange(...); a list is ranged in its order, a map in any
             ELSE /\ Goto("mddelete")
                  /\ idx' = 1
                  /\ IF mdChange.attr = "metadata"
                     THEN ifs' = mdChange.omd
                     ELSE \E f \in [1..Len(mdChange.omd) -> Range(mdChange.omd)] :
                              /\ Range(f) = Range(mdChange.omd)
                              /\ ifs' = f
          /\ UNCHANGED <<calls, currentIfs, readDiags, task, waitSeconds, elapsed, cont>>
       \/ /\ pc = "mddelete"              \* for each old key: instances.MetadataDelete
          /\ IF idx > Len(ifs)
             THEN Goto("mdcreate") /\ ifs' = <<>> /\ idx' = 0 /\ calls' = calls
             ELSE \E r \in {"ok", "err"} :
                      /\ Call("instances.MetadataDelete", r, ifs[idx])
                      /\ IF r = "ok"
                         THEN Goto("mddelete") /\ idx' = idx + 1
                         ELSE Return("error") /\ idx' = idx
                      /\ ifs' = ifs
          /\ UNCHANGED <<currentIfs, readDiags, task, waitSeconds, elapsed, cont>>
       \/ /\ pc = "mdcreate"              \* if len(nmd) > 0: instances.MetadataCreate
          /\ IF Len(mdChange.nmd) > 0
             THEN \E r \in {"ok", "err"} :
                      /\ Call("instances.MetadataCreate", r, id)
                      /\ IF r = "ok" THEN Goto("interface") ELSE Return("error")
             ELSE Goto("interface") /\ calls' = calls
          /\ UNCHANGED <<ifs, idx, currentIfs, readDiags, task, waitSeconds, elapsed, cont>>
       \/ /\ pc = "interface"             \* d.HasChange("interface")
          /\ IF ifsOld # ifsNew
             THEN Goto("detach") /\ ifs' = ifsOld /\ idx' = 1
             ELSE Goto("finish") /\ UNCHANGED <<ifs, idx>>
          /\ UNCHANGED <<calls, currentIfs, readDiags, task, waitSeconds, elapsed, cont>>
       \/ /\ pc = "detach"                \* for _, i := range ifsOld
          /\ IF idx > Len(ifs)
             THEN /\ Goto("list")
                  /\ UNCHANGED <<calls, idx, task, waitSeconds, elapsed, cont>>
             ELSE IF isInterfaceContains(ifs[idx], ifsNew)
             THEN /\ Goto("detach") /\ idx' = idx + 1
                  /\ UNCHANGED <<calls, task, waitSeconds, elapsed, cont>>
             ELSE IF DetachRefused(ifs[idx])
             THEN /\ Return("could not detach trunk interface")
                  /\ UNCHANGED <<calls, idx, task, waitSeconds, elapsed, cont>>
             ELSE /\ SubmitTask("instances.DetachInterface", ifs[idx].key,
                                InstanceCreatingTimeout, "detached")
                  /\ idx' = idx
          /\ UNCHANGED <<ifs, currentIfs, readDiags>>
       \/ /\ pc = "detached"
          /\ RetrieveTask("detach")
          /\ UNCHANGED <<ifs, currentIfs, readDiags, task, waitSeconds, elapsed, cont>>
       \/ /\ pc = "list"                  \* instances.ListInterfacesAll, then the sort
          /\ \E r \in {"ok", "err"} :
                 /\ Call("instances.ListInterfacesAll", r, id)
                 /\ IF r = "ok"
                    THEN /\ Goto("attach")
                         /\ \E cur \in SUBSET {ifsNew[i].key : i \in 1..Len(ifsNew)} :
                                currentIfs' = cur
                         /\ ifs' = AttachOrder(ifsNew)
                         /\ idx' = 1
                    ELSE /\ Return("error")
                         /\ UNCHANGED <<ifs, idx, currentIfs>>
          /\ UNCHANGED <<readDiags, task, waitSeconds, elapsed, cont>>
       \/ /\ pc = "attach"                \* for _, i := range ifsNew
          /\ IF idx > Len(ifs)
             THEN /\ Goto("finish")
                  /\ UNCHANGED <<calls, idx, task, waitSeconds, elapsed, cont>>
             ELSE IF isInterfaceContains(ifs[idx], ifsOld) \/ isInterfaceAttached(currentIfs, ifs[idx])
             THEN /\ Goto("attach") /\ idx' = idx + 1
                  /\ UNCHANGED <<calls, task, waitSeconds, elapsed, cont>>
             ELSE /\ SubmitTask("instances.AttachInterface", ifs[idx].key,
                                InstanceCreatingTimeout, "attached")
                  /\ idx' = idx
          /\ UNCHANGED <<ifs, currentIfs, readDiags>>
       \/ /\ pc = "attached"
          /\ RetrieveTask("attach")
          /\ UNCHANGED <<ifs, currentIfs, readDiags, task, waitSeconds, elapsed, cont>>
       \/ /\ pc = "finish"                \* last_updated, then return resourceBmInstanceRead
          /\ lastUpdated' = TRUE
          /\ NestedRead(BmInstanceReadBody)
          /\ pc' = "done" /\ diags' = readDiags'
          /\ UNCHANGED <<ifs, idx, currentIfs, task, waitSeconds, elapsed, cont>>
    /\ pc # "finish" => lastUpdated' = lastUpdated
    /\ UNCHANGED <<xvars, rcfg, updateOpts, ridx, omap, ranged, kind, op, id, waitResult, result,
                   ifsOld, ifsNew, request, nameChange, mdChange, valvars>>

resourceBmInstanceDelete ==
    /\ kind = "bm" /\ op = "delete"
    /\ \/ /\ pc = "start"
          /\ SubmitTask("instances.Delete", id, BmInstanceDeleting, "retrieve")
          /\ UNCHANGED <<id>>
       \/ /\ pc = "retrieve"
          /\ RetrieveGone("instances.Get")
          /\ UNCHANGED <<id, task, waitSeconds, elapsed, cont>>
       \/ /\ pc = "clearid"
          /\ SetId("")
          /\ Return("ok")
          /\ UNCHANGED <<calls, task, waitSeconds, elapsed, cont>>
    /\ UNCHANGED <<xvars, rvars, kind, op, waitResult, result, readDiags, bmvars, valvars>>

(***************************************************************************)
(* Image data source.  A name is a sequence of one-character strings.      *)
(***************************************************************************)
\* strings.ToLower on the letters the names are made of
LowerOf(ch) == CASE ch = "A" -> "a" [] ch = "B" -> "b" [] OTHER -> ch

ToLower(str) == IF str = <<>> THEN <<>> ELSE [i \in 1..Len(str) |-> LowerOf(str[i])]

\* strings.HasPrefix
HasPrefix(str, prefix) ==
    Len(str) >= Len(prefix) /\ SubSeq(str, 1, Len(prefix)) = prefix

\* the condition of the loop over allImages
ImageMatches(img, name) == HasPrefix(ToLower(img.Name), ToLower(name))

\* the index of the last image that matches, 0 if none does
FindLastImage(allImages, name) ==
    LET hits == {i \in 1..Len(allImages) : ImageMatches(allImages[i], name)}
    IN  IF hits = {} THEN 0 ELSE CHOOSE i \in hits : \A j \in hits : j <= i

\* for _, img := range allImages { if ... { image = img; found = true; break } }:
\* the index of the image taken, 0 if found stays false
RECURSIVE FindImageFrom(_, _, _)
FindImageFrom(allImages, name, i) ==
    IF i > Len(allImages) THEN 0
    ELSE IF ImageMatches(allImages[i], name) THEN i
    ELSE FindImageFrom(allImages, name, i + 1)

FindImage(allImages, name) == FindImageFrom(allImages, name, 1)

dataSourceImageRead ==
    /\ kind = "image" /\ op = "read" /\ pc = "start"
    /\ \E r \in {"ok", "err"} :
           /\ Call("images.ListAll", r, "")
           /\ IF r # "ok"
              THEN Return("error") /\ UNCHANGED <<id, dsAttrs>>
              ELSE LET k == FindImage(cloud.images, dsName)
                   IN  IF k = 0
                       THEN Return("image not found") /\ UNCHANGED <<id, dsAttrs>>
                       ELSE /\ SetId(cloud.images[k].ID)
                            /\ dsAttrs' = [NoAttrs EXCEPT !.set = TRUE,
                                                          !.min_disk = cloud.images[k].MinDisk]
                            /\ \/ Return("ok")
                               \/ Return("error")     \* d.Set("metadata_read_only") failed
    /\ UNCHANGED <<cloud, dsName, members, mcfg, procs, rvars, kind, op, cont, readDiags,
                   task, waitSeconds, elapsed, waitResult, result, bmvars, valvars>>

(***************************************************************************)
(* The acceptance test of the data source edgecenter_secret.  The data     *)
(* source it reads and the providers it runs the read with are not part of *)
(* the sources at hand: the read is a step with either outcome.            *)
(***************************************************************************)
\* TestAccSecretDataSource: the clients, secretsV2.Create, the wait for its task with
\* the retriever that extracts the secret ID, then resource.Test with the step that
\* reads the data source with name = secretTestName, then the deferred
\* secrets.Delete, whose result the test drops; t.Fatal ends the test with "fatal"
TestAccSecretDataSource ==
    /\ kind = "secret"
    /\ \/ /\ op = "idle"
          /\ op' = "test"
          /\ \E r \in {"ok", "err"} :
                 /\ calls' = <<[c |-> "createTestClient", r |-> r, a |-> ""]>>
                 /\ IF r = "ok" THEN Goto("create") ELSE Return("fatal")
          /\ UNCHANGED <<result, task, waitSeconds, elapsed, cont>>
       \/ /\ op = "test" /\ pc = "create"
          /\ SubmitTask("secretsV2.Create", dsName, SecretCreatingTimeout, "retrieve")
          /\ UNCHANGED <<op, result>>
       \/ /\ op = "test" /\ pc = "retrieve"
          /\ \E g \in {"ok", "err"} :
                 IF g # "ok"
                 THEN /\ Call("tasks.Get", g, task)
                      /\ Return("fatal")
                      /\ result' = ""
                 ELSE \E x \in ResourceIDs \cup {""} :
                          /\ calls' = calls \o
                                 <<[c |-> "tasks.Get", r |-> "ok", a |-> task],
                                   [c |-> "secrets.ExtractSecretIDFromTask",
                                    r |-> IF x = "" THEN "err" ELSE "ok", a |-> x]>>
                          /\ result' = x
                          /\ IF x = "" THEN Return("fatal") ELSE Goto("read")
          /\ UNCHANGED <<op, task, waitSeconds, elapsed, cont>>
       \/ /\ op = "test" /\ pc = "read"         \* resource.Test(t, resource.TestCase{...})
          /\ \E r \in {"ok", "err"} :
                 /\ Call("resource.Test", r, dsName)
                 /\ pc' = "deferred"
                 /\ diags' = IF r = "ok" THEN "ok" ELSE "error"
          /\ UNCHANGED <<op, result, task, waitSeconds, elapsed, cont>>
       \/ /\ op = "test" /\ pc = "deferred"     \* defer secrets.Delete(client, secretID)
          /\ \E r \in {"ok", "err", "notfound"} : Call("secrets.Delete", r, result)
          /\ pc' = "done" /\ diags' = diags
          /\ UNCHANGED <<op, result, task, waitSeconds, elapsed, cont>>
    /\ UNCHANGED <<id, xvars, rvars, kind, readDiags, waitResult, bmvars, valvars>>

(***************************************************************************)
(* Load-balancer pool validators.  The algorithm and protocol names are    *)
(* the SDK's (types.LoadBalancerAlgorithm..., types.ProtocolType...).      *)
(***************************************************************************)
LoadBalancerAlgorithmRoundRobin == "ROUND_ROBIN"
LoadBalancerAlgorithmLeastConnections == "LEAST_CONNECTIONS"
LoadBalancerAlgorithmSourceIP == "SOURCE_IP"
LoadBalancerAlgorithmSourceIPPort == "SOURCE_IP_PORT"
ProtocolTypeHTTP == "HTTP"
ProtocolTypeHTTPS == "HTTPS"
ProtocolTypeTCP == "TCP"
ProtocolTypeUDP == "UDP"
ProtocolTypeTerminatedHTTPS == "TERMINATED_HTTPS"
ProtocolTypePROXY == "PROXY"

\* ValidateDiagFunc of "lb_algorithm"
LBAlgorithmValidateDiagFunc(v) ==
    IF v \in {LoadBalancerAlgorithmRoundRobin, LoadBalancerAlgorithmLeastConnections,
              LoadBalancerAlgorithmSourceIP, LoadBalancerAlgorithmSourceIPPort}
    THEN "ok"
    ELSE "error"

\* a validator that accepts every protocol type of the SDK
ProtocolAnySDKType(v) ==
    IF v \in {ProtocolTypeHTTP, ProtocolTypeHTTPS, ProtocolTypeTCP, ProtocolTypeUDP,
              ProtocolTypeTerminatedHTTPS, ProtocolTypePROXY}
    THEN "ok"
    ELSE "error"

\* ValidateDiagFunc of "protocol": the case of TERMINATED_HTTPS and PROXY is empty
\* and leaves the switch for the error below it
ProtocolValidateDiagFunc(v) ==
    IF v \in {ProtocolTypeHTTP, ProtocolTypeHTTPS, ProtocolTypeTCP, ProtocolTypeUDP}
    THEN "ok"
    ELSE IF v \in {ProtocolTypeTerminatedHTTPS, ProtocolTypePROXY}
    THEN "error"
    ELSE "error"

(***************************************************************************)
(* ExactlyOneOf of project_id / project_name / region_id / region_name,    *)
(* declared alike by the router, pool, member, baremetal instance and      *)
(* image schemas.                                                          *)
(***************************************************************************)
Schemas == {"router", "lbpool", "lbmember", "bm", "image"}
ProjectRegionAttrs == {"project_id", "project_name", "region_id", "region_name"}

\* a schema whose region attributes of the image data source declare no ExactlyOneOf
ExactlyOneOfProjectOnly(sch, attr) ==
    IF attr \in {"project_id", "project_name"}
    THEN {"project_id", "project_name"}
    ELSE IF sch = "image" THEN {} ELSE {"region_id", "region_name"}

\* Schema[attr].ExactlyOneOf of schema sch
ExactlyOneOf(sch, attr) ==
    IF attr \in {"project_id", "project_name"}
    THEN {"project_id", "project_name"}
    ELSE {"region_id", "region_name"}

\* the plugin SDK's validateExactlyOneAttribute for attribute attr, run for every
\* attribute of the schema, set or not: exactly one key of the list is specified
validateExactlyOneAttribute(sch, attr, specified) ==
    LET allKeys == ExactlyOneOf(sch, attr)
    IN  IF allKeys = {} THEN "ok"
        ELSE IF Cardinality((allKeys \cup {attr}) \cap specified) = 1 THEN "ok"
        ELSE "error"

SchemaValidate(sch, specified) ==
    IF \A attr \in ProjectRegionAttrs : validateExactlyOneAttribute(sch, attr, specified) = "ok"
    THEN "ok"
    ELSE "error"

(***************************************************************************)
(* Terraform validates a configured value with the attribute's validator   *)
(* before any handler runs on it.                                          *)
(***************************************************************************)
Verdict(dg) == IF dg = "ok" THEN "accepted" ELSE "rejected"

ValidateWeight ==
    /\ vsubject = "weight" /\ verdict = "pending"
    /\ verdict' = Verdict(WeightValidateDiagFunc(vinput))
    /\ UNCHANGED <<xvars, rvars, hvars, bmvars, vsubject, vinput, sent>>

ValidateAddress ==
    /\ vsubject = "address" /\ verdict = "pending"
    /\ verdict' = Verdict(AddressValidateDiagFunc(vinput))
    /\ UNCHANGED <<xvars, rvars, hvars, bmvars, vsubject, vinput, sent>>

ValidateLBAlgorithm ==
    /\ vsubject = "lb_algorithm" /\ verdict = "pending"
    /\ verdict' = Verdict(LBAlgorithmValidateDiagFunc(vinput))
    /\ UNCHANGED <<xvars, rvars, hvars, bmvars, vsubject, vinput, sent>>

ValidateProtocol ==
    /\ vsubject = "protocol" /\ verdict = "pending"
    /\ verdict' = Verdict(ProtocolValidateDiagFunc(vinput))
    /\ UNCHANGED <<xvars, rvars, hvars, bmvars, vsubject, vinput, sent>>

ValidateExactlyOneOf ==
    /\ vsubject = "exactly_one_of" /\ verdict = "pending"
    /\ verdict' = Verdict(SchemaValidate(vinput.schema, vinput.specified))
    /\ UNCHANGED <<xvars, rvars, hvars, bmvars, vsubject, vinput, sent>>

(***************************************************************************)
(* Initial states and specifications.                                      *)
(***************************************************************************)
InitHandler ==
    /\ op = "idle" /\ pc = "idle" /\ cont = "" /\ diags = "none" /\ readDiags = "none"
    /\ calls = <<>> /\ task = "" /\ waitSeconds = 0 /\ elapsed = 0
    /\ waitResult = "none" /\ result = ""
    /\ ifs = <<>> /\ idx = 0 /\ currentIfs = {} /\ request = <<>>
    /\ sent = <<>>
    /\ updateOpts = NoUpdateOpts /\ ridx = 0 /\ omap = {} /\ ranged = {}
    /\ lastUpdated = FALSE
    /\ dsAttrs = NoAttrs /\ members = <<>>

\* no data source, no pool members and no second update
InitNoCloud == cloud = NoCloud /\ dsName = <<>> /\ mcfg = NoMemberConfig /\ procs = NoProcs

\* a pool member as lbpools.Get reports it; ip is the four bytes of its IPv4
\* address, which net.IP holds in the 16-byte form
Member(mid, ip, weight) ==
    [Address |-> [ok |-> TRUE, ip |-> <<0, 0, 0, 0, 0, 0, 0, 0, 0, 0, 255, 255>> \o ip], ProtocolPort |-> 80, Weight |-> weight,
     SubnetID |-> "sub", InstanceID |-> "inst", ID |-> mid]

\* the configured values of the managed member (its address is vinput)
SampleMemberConfig ==
    [protocol_port |-> 8080, weight |-> 7, subnet_id |-> "sub2", instance_id |-> "inst2"]

\* the pools of Spec: without and with the managed member
PoolCases ==
    {<<>>, <<Member("r1", <<10, 0, 0, 1>>, 1)>>,
     <<Member("m3", <<10, 0, 0, 3>>, 2), Member("r1", <<10, 0, 0, 1>>, 1)>>}

\* a member resource and the pool it belongs to; no data source, no second update
InitPool(pools) ==
    /\ dsName = <<>> /\ procs = NoProcs
    /\ IF kind = "lbmember"
       THEN mcfg = SampleMemberConfig /\ \E l \in pools : cloud = [NoCloud EXCEPT !.members = l]
       ELSE mcfg = NoMemberConfig /\ cloud = NoCloud

\* the subnet IDs, gateway blocks and route lists of the router configurations
SubnetIDs == {"s1", "s2", "s3"}

GatewayBlocks ==
    {<<>>} \cup {<<[type |-> t, network_id |-> "net"]>> : t \in {"manual", "default", ""}}

RouteLists == {<<>>, <<"route">>}

\* lists of at most n distinct subnet IDs: List() of a set keyed by the subnet ID
RECURSIVE SubnetLists(_)
SubnetLists(n) ==
    IF n = 0 THEN {<<>>}
    ELSE LET shorter == SubnetLists(n - 1)
         IN  shorter \cup {Append(l, x) : <<l, x>> \in
                               {<<l, x>> \in shorter \X SubnetIDs : x \notin Range(l)}}

RouterConfigs ==
    [nameChange : BOOLEAN, egiChange : BOOLEAN, egi : GatewayBlocks,
     oifs : SubnetLists(MaxSubnets), nifs : SubnetLists(MaxSubnets),
     routesChange : BOOLEAN, routes : RouteLists]

NoRouterConfig ==
    [nameChange |-> FALSE, egiChange |-> FALSE, egi |-> <<>>, oifs |-> <<>>, nifs |-> <<>>,
     routesChange |-> FALSE, routes |-> <<>>]

\* the pool configurations: which of name, lb_algorithm, health_monitor and
\* session_persistence differ between the old and the new configuration
PoolChanges ==
    [nameChange : BOOLEAN, algChange : BOOLEAN, hmChange : BOOLEAN, spChange : BOOLEAN]

\* the router configurations of Spec
RouterCases ==
    {NoRouterConfig,
     [NoRouterConfig EXCEPT !.egiChange = TRUE,
                            !.egi = <<[type |-> "manual", network_id |-> "net"]>>,
                            !.oifs = <<"s1", "s2">>, !.nifs = <<"s3", "s2">>,
                            !.routesChange = TRUE, !.routes = <<"route">>]}

\* interface lists of at most n elements with distinct keys
RECURSIVE IfLists(_, _)
IfLists(pool, n) ==
    IF n = 0 THEN {<<>>}
    ELSE LET shorter == IfLists(pool, n - 1)
         IN  shorter \cup
             {Append(l, i) : <<l, i>> \in
                 {<<l, i>> \in shorter \X pool : ~isInterfaceContains(i, l)}}

Trunk(k) == [key |-> k, is_parent |-> TRUE, order |-> 0]
Port(k, o) == [key |-> k, is_parent |-> FALSE, order |-> o]

\* the baremetal configurations of Spec: <<ifsOld, ifsNew>>
IfsCases ==
    { << <<Trunk("a")>>, <<Trunk("a")>> >>,
      << <<Trunk("a")>>, <<Port("b", 1), Trunk("a")>> >>,
      << <<Trunk("a"), Port("b", 0)>>, <<Port("c", 0), Trunk("a")>> >> }

\* an accepted member address: "0.255.0.0"
SampleAddress == <<"0", ".", "2", "5", "5", ".", "0", ".", "0">>

\* a validated configuration of one resource, with or without ID in the state
Init ==
    /\ InitHandler
    /\ kind \in Kinds
    /\ id \in {"", "r1"}
    /\ verdict = "accepted"
    /\ IF kind = "lbmember"
       THEN vsubject = "address" /\ vinput = SampleAddress
       ELSE vsubject = "none" /\ vinput = <<>>
    /\ CASE kind = "router" -> rcfg \in RouterCases
         [] kind = "lbpool" -> rcfg \in PoolChanges
         [] OTHER -> rcfg = NoRouterConfig
    /\ InitPool(PoolCases)
    /\ IF kind = "bm"
       THEN /\ \E c \in IfsCases : ifsOld = c[1] /\ ifsNew = c[2]
            /\ nameChange \in BOOLEAN
            /\ mdChange \in {NoMdChange} \cup
                   {m \in [attr : {"metadata", "metadata_map"},
                           omd : {<<>>, <<"k1", "k2">>}, nmd : {<<>>, <<"k3">>}] :
                        m.omd # m.nmd}
       ELSE ifsOld = <<>> /\ ifsNew = <<>> /\ nameChange = FALSE /\ mdChange = NoMdChange

Next ==
    \/ Invoke
    \/ ImporterStateContext
    \/ Done
    \/ WaitTask
    \/ resourceRouterCreate
    \/ resourceRouterRead
    \/ resourceRouterUpdate
    \/ resourceRouterDelete
    \/ resourceLBPoolCreate
    \/ resourceLBPoolRead
    \/ resourceLBPoolUpdate
    \/ resourceLBPoolDelete
    \/ resourceLBMemberCreate
    \/ resourceLBMemberRead
    \/ resourceLBMemberUpdate
    \/ resourceLBMemberDelete
    \/ resourceBmInstanceCreate
    \/ resourceBmInstanceRead
    \/ resourceBmInstanceUpdate
    \/ resourceBmInstanceDelete

Spec == Init /\ [][Next]_vars

\* the task waits as polling loops, on one baremetal configuration
InitWait ==
    /\ Init
    /\ kind = "bm" => /\ ifsOld = <<Trunk("a"), Port("b", 0)>>
                      /\ nameChange = FALSE /\ mdChange = NoMdChange
    /\ kind = "lbpool" => ~rcfg.nameChange /\ ~rcfg.hmChange /\ ~rcfg.spChange

NextWait ==
    \/ Invoke
    \/ ImporterStateContext
    \/ Done
    \/ WaitForStatus
    \/ resourceRouterCreate
    \/ resourceRouterRead
    \/ resourceRouterUpdate
    \/ resourceRouterDelete
    \/ resourceLBPoolCreate
    \/ resourceLBPoolRead
    \/ resourceLBPoolUpdate
    \/ resourceLBPoolDelete
    \/ resourceLBMemberCreate
    \/ resourceLBMemberRead
    \/ resourceLBMemberUpdate
    \/ resourceLBMemberDelete
    \/ resourceBmInstanceCreate
    \/ resourceBmInstanceRead
    \/ resourceBmInstanceUpdate
    \/ resourceBmInstanceDelete

\* a running handler goes on running: the handler is one goroutine of blocking calls
SpecWait == InitWait /\ [][NextWait]_vars /\ WF_vars(NextWait)

\* the baremetal handlers on every pair of interface lists within MaxIfs
InitBm ==
    /\ InitHandler
    /\ kind = "bm"
    /\ id \in {"", "r1"}
    /\ verdict = "accepted" /\ vsubject = "none" /\ vinput = <<>>
    /\ rcfg = NoRouterConfig
    /\ InitNoCloud
    /\ ifsOld \in IfLists({i \in Interfaces : i.order = 0}, MaxIfs)
    /\ ifsNew \in IfLists(Interfaces, MaxIfs) \ {<<>>}
    /\ nameChange = FALSE /\ mdChange = NoMdChange

NextBm ==
    \/ Invoke
    \/ ImporterStateContext
    \/ Done
    \/ WaitTask
    \/ resourceBmInstanceCreate
    \/ resourceBmInstanceRead
    \/ resourceBmInstanceUpdate
    \/ resourceBmInstanceDelete

SpecBm == InitBm /\ [][NextBm]_vars

\* the router handlers on every configuration within MaxSubnets
InitRouter ==
    /\ InitHandler
    /\ kind = "router"
    /\ id = "r1"
    /\ verdict = "accepted" /\ vsubject = "none" /\ vinput = <<>>
    /\ rcfg \in RouterConfigs
    /\ InitNoCloud
    /\ ifsOld = <<>> /\ ifsNew = <<>> /\ nameChange = FALSE /\ mdChange = NoMdChange

NextRouter ==
    \/ Invoke
    \/ ImporterStateContext
    \/ Done
    \/ WaitTask
    \/ resourceRouterCreate
    \/ resourceRouterRead
    \/ resourceRouterUpdate
    \/ resourceRouterDelete

SpecRouter == InitRouter /\ [][NextRouter]_vars

\* the image data source on every name and list of images within the bounds
NameLetters == {"a", "A", "b"}

RECURSIVE Names(_)
Names(n) ==
    IF n = 0 THEN {<<>>}
    ELSE Names(n - 1) \cup {Append(w, ch) : <<w, ch>> \in Names(n - 1) \X NameLetters}

\* the configured names: empty, one letter in either case, a letter no image of the
\* other case has, two letters
QueryNames == {<<>>, <<"a">>, <<"A">>, <<"b">>, <<"a", "b">>, <<"A", "a">>}

\* the i-th image of a list has the ID "i<i>" and the min_disk i
ImageIDs == <<"i1", "i2", "i3">>

ImageLists ==
    UNION {[1..n -> Names(MaxName)] : n \in 0..MaxImages}

ImagesOf(names) ==
    IF names = <<>> THEN <<>>
    ELSE [i \in 1..Len(names) |-> [ID |-> ImageIDs[i], Name |-> names[i], MinDisk |-> i]]

InitImage ==
    /\ InitHandler
    /\ kind = "image"
    /\ id = ""
    /\ verdict = "accepted" /\ vsubject = "none" /\ vinput = <<>>
    /\ rcfg = NoRouterConfig
    /\ ifsOld = <<>> /\ ifsNew = <<>> /\ nameChange = FALSE /\ mdChange = NoMdChange
    /\ mcfg = NoMemberConfig /\ procs = NoProcs
    /\ dsName \in QueryNames
    /\ \E names \in ImageLists : cloud = [NoCloud EXCEPT !.images = ImagesOf(names)]

NextImage ==
    \/ Invoke
    \/ Done
    \/ dataSourceImageRead

SpecImage == InitImage /\ [][NextImage]_vars

\* the member handlers on every pool of at most MaxMembers members
MemberValues ==
    {Member(mid, ip, w) : mid \in {"r1", "r2", "m3"}, ip \in {<<10, 0, 0, 1>>, <<10, 0, 0, 2>>},
                          w \in {1, 2}}

RECURSIVE Pools(_)
Pools(n) ==
    IF n = 0 THEN {<<>>}
    ELSE LET shorter == Pools(n - 1)
         IN  shorter \cup
             {Append(l, pm) : <<l, pm>> \in
                 {<<l, pm>> \in shorter \X MemberValues :
                      \A i \in 1..Len(l) : l[i].ID # pm.ID}}

InitMember ==
    /\ InitHandler
    /\ kind = "lbmember"
    /\ id = "r1"
    /\ verdict = "accepted" /\ vsubject = "address" /\ vinput = SampleAddress
    /\ rcfg = NoRouterConfig
    /\ ifsOld = <<>> /\ ifsNew = <<>> /\ nameChange = FALSE /\ mdChange = NoMdChange
    /\ InitPool(Pools(MaxMembers))

NextMember ==
    \/ Invoke
    \/ ImporterStateContext
    \/ Done
    \/ WaitTask
    \/ resourceLBMemberCreate
    \/ resourceLBMemberRead
    \/ resourceLBMemberUpdate
    \/ resourceLBMemberDelete

SpecMember == InitMember /\ [][NextMember]_vars

\* two resourceLBMemberUpdate operations of two members of one pool, as Terraform
\* runs them in parallel: each has its own d (ID and configured values) and its
\* own locals (members, the diagnostics it returns); seen is the weight that its
\* closing read sets from the pool, 0 before
Proc(mid, weight) ==
    [mid |-> mid, pc |-> "get", members |-> <<>>, diags |-> "", seen |-> 0,
     cfg |-> [SampleMemberConfig EXCEPT !.weight = weight]]

ConcurrentUpdates == <<Proc("r1", 7), Proc("r2", 9)>>

\* lbpools.Get of one update and the members it builds from the answer
memberUpdateGet(p) ==
    /\ procs[p].pc = "get"
    /\ \E g \in {"ok", "err"} :
           procs' = [procs EXCEPT ![p] =
                        IF g = "ok"
                        THEN [@ EXCEPT !.pc = "update",
                                       !.members = UpdateMembers(cloud.members, procs[p].mid,
                                                                 SampleAddress, procs[p].cfg)]
                        ELSE [@ EXCEPT !.pc = "done", !.diags = "error"]]
    /\ UNCHANGED <<hvars, bmvars, valvars, rvars, cloud, dsName, dsAttrs, members, mcfg>>

\* lbpools.Update of one update: the request carries the whole member list
memberUpdateSend(p) ==
    /\ procs[p].pc = "update"
    /\ \E u \in {"ok", "err"} :
           procs' = [procs EXCEPT ![p] =
                        IF u = "ok" THEN [@ EXCEPT !.pc = "wait"]
                        ELSE [@ EXCEPT !.pc = "done", !.diags = "error"]]
    /\ UNCHANGED <<hvars, bmvars, valvars, rvars, cloud, dsName, dsAttrs, members, mcfg>>

\* the wait of one update: the finished task has replaced the pool's members
memberUpdateWait(p) ==
    /\ procs[p].pc = "wait"
    /\ \E o \in {"success", "failure"} :
           /\ procs' = [procs EXCEPT ![p] =
                           IF o = "success" THEN [@ EXCEPT !.pc = "retrieve"]
                           ELSE [@ EXCEPT !.pc = "done", !.diags = "error"]]
           /\ cloud' = IF o = "success" THEN [cloud EXCEPT !.members = procs[p].members]
                       ELSE cloud
    /\ UNCHANGED <<hvars, bmvars, valvars, rvars, dsName, dsAttrs, members, mcfg>>

\* the retriever of the wait: tasks.Get and lbpools.ExtractPoolMemberIDFromTask;
\* then d.Set("last_updated")
memberUpdateRetrieve(p) ==
    /\ procs[p].pc = "retrieve"
    /\ \E g \in {"ok", "err"}, x \in {"ok", "err"} :
           procs' = [procs EXCEPT ![p] =
                        IF g = "ok" /\ x = "ok" THEN [@ EXCEPT !.pc = "read"]
                        ELSE [@ EXCEPT !.pc = "done", !.diags = "error"]]
    /\ UNCHANGED <<hvars, bmvars, valvars, rvars, cloud, dsName, dsAttrs, members, mcfg>>

\* the resourceLBMemberRead the update returns: CreateClient, lbpools.Get and the
\* d.Set calls for the member of the pool with the managed ID
memberUpdateRead(p) ==
    /\ procs[p].pc = "read"
    /\ \E c \in {"ok", "err"}, g \in {"ok", "err"} :
           procs' = [procs EXCEPT ![p] =
                        IF c = "ok" /\ g = "ok"
                        THEN [@ EXCEPT !.pc = "done", !.diags = "ok",
                                       !.seen = IF \E i \in 1..Len(cloud.members) :
                                                      cloud.members[i].ID = procs[p].mid
                                                THEN LET i == CHOOSE k \in 1..Len(cloud.members) :
                                                                  cloud.members[k].ID = procs[p].mid
                                                     IN  cloud.members[i].Weight
                                                ELSE procs[p].seen]
                        ELSE [@ EXCEPT !.pc = "done", !.diags = "error"]]
    /\ UNCHANGED <<hvars, bmvars, valvars, rvars, cloud, dsName, dsAttrs, members, mcfg>>

InitConc ==
    /\ InitHandler
    /\ kind = "lbmember"
    /\ id = ""
    /\ verdict = "accepted" /\ vsubject = "address" /\ vinput = SampleAddress
    /\ rcfg = NoRouterConfig
    /\ ifsOld = <<>> /\ ifsNew = <<>> /\ nameChange = FALSE /\ mdChange = NoMdChange
    /\ dsName = <<>> /\ mcfg = NoMemberConfig
    /\ procs = ConcurrentUpdates
    /\ \E l \in Pools(MaxMembers) :
           /\ \A p \in 1..Len(ConcurrentUpdates) :
                  \E i \in 1..Len(l) : l[i].ID = ConcurrentUpdates[p].mid
           /\ cloud = [NoCloud EXCEPT !.members = l]

NextConc ==
    \/ \E p \in 1..Len(procs) : memberUpdateGet(p)
    \/ \E p \in 1..Len(procs) : memberUpdateSend(p)
    \/ \E p \in 1..Len(procs) : memberUpdateWait(p)
    \/ \E p \in 1..Len(procs) : memberUpdateRetrieve(p)
    \/ \E p \in 1..Len(procs) : memberUpdateRead(p)

SpecConc == InitConc /\ [][NextConc]_vars

\* the secret test for every name within MaxName
InitSecret ==
    /\ InitHandler
    /\ kind = "secret"
    /\ id = ""
    /\ verdict = "accepted" /\ vsubject = "none" /\ vinput = <<>>
    /\ rcfg = NoRouterConfig
    /\ ifsOld = <<>> /\ ifsNew = <<>> /\ nameChange = FALSE /\ mdChange = NoMdChange
    /\ mcfg = NoMemberConfig /\ procs = NoProcs
    /\ dsName \in Names(MaxName) \ {<<>>}
    /\ cloud = NoCloud

NextSecret ==
    \/ Done
    \/ WaitTask
    \/ TestAccSecretDataSource

SpecSecret == InitSecret /\ [][NextSecret]_vars

\* the validators on bounded inputs; an accepted member address goes on to the
\* member's handlers
AddrFields == {<<>>, <<"0">>, <<"0", "1">>, <<"2", "5", "5">>, <<"2", "5", "6">>, <<"x">>}

RECURSIVE Dotted(_)
Dotted(n) ==
    IF n = 1 THEN AddrFields
    ELSE {p \o <<".">> \o f : <<p, f>> \in Dotted(n - 1) \X AddrFields}

AddressInputs == UNION {Dotted(n) : n \in 1..MaxFields}

\* texts with colons: fewer than MaxFields fields of every sort, and fields that are
\* empty or "1" up to one more than the eight groups of an address, with and
\* without a dotted tail
Address6Inputs ==
    LET v4 == <<"1", ".", "2", ".", "3", ".", "4">>
        Rich == {<<>>, <<"1">>, <<"f", "F", "f", "f">>, <<"0", "0", "0", "0", "1">>,
                 <<"1", "0", "0", "0", "0">>, <<"g">>, v4}
        Plain == {<<>>, <<"1">>}
        RECURSIVE Joined(_, _)
        Joined(fields, n) ==
            IF n = 1 THEN fields
            ELSE {p \o <<":">> \o f : <<p, f>> \in Joined(fields, n - 1) \X fields}
        Long == UNION {Joined(Plain, n) : n \in 1..9}
    IN  UNION {Joined(Rich, n) : n \in 2..(MaxFields - 1)}
            \cup (Long \ Plain) \cup {p \o <<":">> \o v4 : p \in Long}
WeightInputs == (minWeight - WeightSlack)..(maxWeight + WeightSlack)
AlgorithmInputs == {"ROUND_ROBIN", "LEAST_CONNECTIONS", "SOURCE_IP", "SOURCE_IP_PORT",
                    "round_robin", "", "RANDOM", "SOURCE_IP_PORTS", "HTTP"}
ProtocolInputs == {"HTTP", "HTTPS", "TCP", "UDP", "TERMINATED_HTTPS", "PROXY",
                   "http", "", "SCTP", "ROUND_ROBIN"}

InitValidate ==
    /\ InitHandler
    /\ verdict = "pending"
    /\ rcfg = NoRouterConfig
    /\ ifsOld = <<>> /\ ifsNew = <<>> /\ nameChange = FALSE /\ mdChange = NoMdChange
    /\ \/ vsubject = "weight" /\ vinput \in WeightInputs /\ kind = "none" /\ id = ""
       \/ vsubject = "address" /\ kind = "lbmember" /\ id \in {"", "r1"}
             /\ vinput \in AddressInputs
                    \cup {<<":", ":", "1">>, <<"1", ":", "1">>,
                          <<":", ":", "f", "f", "f", "f", ":", "0", ".", "2", "5", "5", ".", "0", ".", "0">>}
       \/ vsubject = "address" /\ vinput \in Address6Inputs /\ kind = "none" /\ id = ""
       \/ vsubject = "lb_algorithm" /\ vinput \in AlgorithmInputs /\ kind = "none" /\ id = ""
       \/ vsubject = "protocol" /\ vinput \in ProtocolInputs /\ kind = "none" /\ id = ""
       \/ vsubject = "exactly_one_of" /\ kind = "none" /\ id = ""
             /\ vinput \in [schema : Schemas, specified : SUBSET ProjectRegionAttrs]
    /\ InitPool(PoolCases)

NextValidate ==
    \/ ValidateWeight
    \/ ValidateAddress
    \/ ValidateLBAlgorithm
    \/ ValidateProtocol
    \/ ValidateExactlyOneOf
    \/ Invoke
    \/ Done
    \/ WaitTask
    \/ resourceLBMemberCreate
    \/ resourceLBMemberRead
    \/ resourceLBMemberUpdate
    \/ resourceLBMemberDelete

SpecValidate == InitValidate /\ [][NextValidate]_vars

(***************************************************************************)
(* Properties.                                                             *)
(***************************************************************************)
SubmitCalls == {"routers.Create", "lbpools.Create", "lbpools.CreateMember", "bminstances.Create"}
ExtractCalls == {"routers.ExtractRouterIDFromTask", "lbpools.ExtractPoolIDFromTask",
                 "lbpools.ExtractPoolMemberIDFromTask", "instances.ExtractInstanceIDFromTask"}
CalledOk(names) == \E i \in 1..Len(calls) : calls[i].c \in names /\ calls[i].r = "ok"
CalledFailed(names) == \E i \in 1..Len(calls) : calls[i].c \in names /\ calls[i].r # "ok"

\* C1 (as the claim states it for the create handlers): a create handler that
\* finishes after one of its SDK calls failed, the calls of the read it runs after
\* setting the ID included, returns error diagnostics.
C1_CreateReturnsSdkErrors ==
    (op = "create" /\ pc = "done" /\ AnyFailed) => diags = "error"

\* C2: in a create handler the ID is set only after the create call was submitted,
\* its task awaited to success and an ID extracted from the task, and it is that
\* extracted ID; when submission, wait or extraction failed the handler returns
\* error diagnostics and the ID is unset.
C2_IdSetFromCompletedTask ==
    op = "create" =>
        /\ id # "" =>
              /\ CalledOk(SubmitCalls)
              /\ CalledOk({"tasks.WaitForStatus"})
              /\ \E i \in 1..Len(calls) :
                     calls[i].c \in ExtractCalls /\ calls[i].r = "ok" /\ calls[i].a = id
        /\ (pc = "done" /\ CalledFailed(SubmitCalls \cup ExtractCalls
                                         \cup {"tasks.WaitForStatus", "tasks.Get"}))
              => (diags = "error" /\ id = "")

C2_Witness ==
    /\ op = "create" /\ pc = "done" /\ diags = "ok" /\ id = "r2"
    /\ CalledOk(ExtractCalls)

\* the bound the wait of the running handler is said to have
ClaimedWaitBound ==
    CASE kind = "router" -> 1200
      [] kind \in {"lbpool", "lbmember"} -> 2400
      [] kind = "bm" /\ op = "create" -> 3600
      [] kind = "bm" /\ op = "delete" -> 1200
      [] OTHER -> InstanceCreatingTimeout

\* the waits of the running handler that have ended
WaitsEnded == SelectSeq(calls, LAMBDA x : x.c = "tasks.WaitForStatus")

\* the state part of the property below
C3_WaitBounded ==
    /\ pc = "wait" => elapsed <= ClaimedWaitBound
    /\ WaitsEnded = <<>> => waitResult = "none"
    /\ WaitsEnded # <<>> =>
           /\ waitResult \in {"success", "timeout", "failure"}
           /\ waitResult = "success" <=> WaitsEnded[Len(WaitsEnded)].r = "ok"
           /\ waitResult # "success" => (pc = "done" /\ diags = "error")

\* C3: while a handler waits for a task the wait has lasted no longer than 1200 s
\* (router create and delete, baremetal delete), 2400 s (pool and member
\* operations), 3600 s (baremetal create) or the instance timeout (the detach and
\* attach waits of the baremetal update); a wait that ended ended in success,
\* timeout or failure, and every wait ends.
C3_WaitEnds == []C3_WaitBounded /\ ((pc = "wait") ~> (pc # "wait"))

C3_Witness ==
    /\ kind = "bm" /\ op = "create" /\ pc = "done"
    /\ waitResult = "timeout" /\ diags = "error"

\* the delete calls and the Gets of the two delete retrievers
DeleteCalls == {"routers.Delete", "instances.Delete"}
GetCalls == {"routers.Get", "instances.Get"}

\* C4: the router and baremetal delete handlers clear the ID only after the delete
\* call succeeded, its task completed and the Get of the resource returned the typed
\* not-found error; when the Get succeeded or failed otherwise the handler returns
\* error diagnostics and the ID is the one it started with.
C4_DeleteClearsIdWhenGone ==
    (kind \in {"router", "bm"} /\ op = "delete") =>
        /\ id = "" =>
              /\ CalledOk(DeleteCalls)
              /\ CalledOk({"tasks.WaitForStatus"})
              /\ \E i \in 1..Len(calls) : calls[i].c \in GetCalls /\ calls[i].r = "notfound"
        /\ \A i \in 1..Len(calls) :
              (calls[i].c \in GetCalls /\ calls[i].r \in {"ok", "err"})
                  => (pc = "done" /\ diags = "error" /\ id # "" /\ id = calls[i].a)

C4_Witness ==
    /\ kind = "router" /\ op = "delete" /\ pc = "done" /\ id = "" /\ diags = "ok"
    /\ \E i \in 1..Len(calls) : calls[i].c = "routers.Get" /\ calls[i].r = "notfound"

\* the i-th call of the handler detaches or attaches an interface
IsMutating(i) == calls[i].c \in {"instances.DetachInterface", "instances.AttachInterface"}

\* C5: in resourceBmInstanceUpdate a DetachInterface or AttachInterface call is
\* followed by the wait for its task and the task's retrieval before the next such
\* call is made, and no DetachInterface is made after an AttachInterface.
C5_DetachAttachSequential ==
    (kind = "bm" /\ op = "update") =>
        /\ \A i \in 1..Len(calls) : \A j \in (i + 1)..Len(calls) :
              (IsMutating(i) /\ IsMutating(j)) =>
                  /\ calls[i].r = "ok"
                  /\ i + 2 < j
                  /\ calls[i + 1].c = "tasks.WaitForStatus" /\ calls[i + 1].r = "ok"
                  /\ calls[i + 2].c = "tasks.Get" /\ calls[i + 2].r = "ok"
        /\ \A i \in 1..Len(calls) : (IsMutating(i) /\ calls[i].r = "ok" /\ i < Len(calls))
              => calls[i + 1].c = "tasks.WaitForStatus"
        /\ \A i \in 1..Len(calls) : \A j \in (i + 1)..Len(calls) :
              calls[i].c = "instances.AttachInterface" => calls[j].c # "instances.DetachInterface"

C5_Witness ==
    /\ kind = "bm" /\ op = "update" /\ pc = "done" /\ diags = "ok"
    /\ \E i \in 1..Len(calls) : \E j \in (i + 1)..Len(calls) :
           calls[i].c = "instances.DetachInterface" /\ calls[j].c = "instances.AttachInterface"

\* C6: the weight validator accepts w exactly when 0 <= w <= 256.
C6_WeightAcceptedInRange ==
    (vsubject = "weight" /\ verdict # "pending") =>
        (verdict = "accepted" <=> (0 <= vinput /\ vinput <= 256))

C6_Witness ==
    vsubject = "weight" /\ vinput = 257 /\ verdict = "rejected"

\* the decimal numeral of n, and the text of an IPv4 address, stated on the text
RECURSIVE Decimal(_)
Decimal(n) ==
    IF n < 10 THEN <<CHOOSE ch \in Digits : DigitVal(ch) = n>>
    ELSE Append(Decimal(n \div 10), CHOOSE ch \in Digits : DigitVal(ch) = n % 10)

Octets == {Decimal(n) : n \in 0..255}

RECURSIVE SplitDots(_)
SplitDots(s) ==
    IF \A i \in 1..Len(s) : s[i] # "." THEN <<s>>
    ELSE LET d == CHOOSE i \in 1..Len(s) : s[i] = "." /\ \A j \in 1..(i - 1) : s[j] # "."
         IN  <<SubSeq(s, 1, d - 1)>> \o SplitDots(SubSeq(s, d + 1, Len(s)))

IsIPv4Text(s) ==
    LET f == SplitDots(s)
    IN  Len(f) = 4 /\ \A i \in 1..4 : f[i] \in Octets

\* the text of an IPv6 address, stated on the text: colon-separated groups of
\* hexadecimal digits of value at most ffff, the last of which may be the text of
\* an IPv4 address and then counts as two; eight groups, or fewer with one "::"
\* standing for the missing ones
IsIPv6Text(s) ==
    LET RECURSIVE SplitColons(_)
        SplitColons(t) ==
            IF \A i \in 1..Len(t) : t[i] # ":" THEN <<t>>
            ELSE LET d == CHOOSE i \in 1..Len(t) : t[i] = ":" /\ \A j \in 1..(i - 1) : t[j] # ":"
                 IN  <<SubSeq(t, 1, d - 1)>> \o SplitColons(SubSeq(t, d + 1, Len(t)))
        f == SplitColons(s)
        n == Len(f)
        Hex == {"0", "1", "2", "3", "4", "5", "6", "7", "8", "9", "a", "b", "c", "d", "e", "f",
                "A", "B", "C", "D", "E", "F"}
        Significant(g) == Cardinality({i \in 1..Len(g) : \E j \in 1..i : g[j] # "0"})
        IsGroup(g) == Len(g) > 0 /\ (\A i \in 1..Len(g) : g[i] \in Hex) /\ Significant(g) <= 4
        empty == {i \in 1..n : f[i] = <<>>}
        tail4 == IsIPv4Text(f[n])
        groups == Cardinality({i \in 1..n : IsGroup(f[i])}) + (IF tail4 THEN 2 ELSE 0)
    IN  /\ n >= 2
        /\ \A i \in 1..n : f[i] = <<>> \/ IsGroup(f[i]) \/ (i = n /\ tail4)
        /\ \/ empty = {} /\ groups = 8
           \/ /\ groups <= 7
              /\ \/ \E k \in 2..(n - 1) : empty = {k}
                 \/ n >= 3 /\ empty = {1, 2}
                 \/ n >= 3 /\ empty = {n - 1, n}
                 \/ n = 3 /\ empty = {1, 2, 3}

\* C7: the address validator accepts a string exactly when it is the text of an IP
\* address (four dot-separated decimal numbers of 0..255 without leading zeros, or
\* the colon-separated groups of an IPv6 address), and every Address the member's
\* create and update handlers send for the managed member is a parsed IP.
C7_AddressParsed ==
    /\ (vsubject = "address" /\ verdict # "pending") =>
           (verdict = "accepted" <=> (IsIPv4Text(vinput) \/ IsIPv6Text(vinput)))
    /\ kind = "lbmember" => \A i \in 1..Len(sent) : sent[i].ok

C7_Witness ==
    /\ kind = "lbmember" /\ op = "update" /\ pc = "done" /\ diags = "ok"
    /\ vinput = <<":", ":", "1">>
    /\ Len(sent) = 1 /\ sent[1].ip = <<0, 0, 0, 0, 0, 0, 0, 0, 0, 0, 0, 0, 0, 0, 0, 1>>

\* exactly one attribute of the pair is set
ExactlyOne(pair, specified) == Cardinality(pair \cap specified) = 1

\* C8: a configuration is accepted only with exactly one of project_id and
\* project_name and exactly one of region_id and region_name; with both or neither
\* of a pair it is rejected.
C8_ExactlyOneOfProjectRegion ==
    (vsubject = "exactly_one_of" /\ verdict # "pending") =>
        (verdict = "accepted" <=>
            /\ ExactlyOne({"project_id", "project_name"}, vinput.specified)
            /\ ExactlyOne({"region_id", "region_name"}, vinput.specified))

C8_Witness ==
    /\ vsubject = "exactly_one_of" /\ verdict = "rejected"
    /\ vinput.schema = "image" /\ vinput.specified = {"project_id"}

\* C9: lb_algorithm is accepted exactly when it is one of ROUND_ROBIN,
\* LEAST_CONNECTIONS, SOURCE_IP, SOURCE_IP_PORT, and protocol exactly when it is one
\* of HTTP, HTTPS, TCP, UDP.
C9_PoolValidators ==
    /\ (vsubject = "lb_algorithm" /\ verdict # "pending") =>
           (verdict = "accepted" <=>
               vinput \in {"ROUND_ROBIN", "LEAST_CONNECTIONS", "SOURCE_IP", "SOURCE_IP_PORT"})
    /\ (vsubject = "protocol" /\ verdict # "pending") =>
           (verdict = "accepted" <=> vinput \in {"HTTP", "HTTPS", "TCP", "UDP"})

C9_Witness ==
    vsubject = "protocol" /\ vinput = "TERMINATED_HTTPS" /\ verdict = "rejected"

\* the order the interfaces are said to have, and the interfaces attached so far
TrunkFirstByOrder(l) ==
    \A i \in 1..Len(l) : \A j \in (i + 1)..Len(l) :
        /\ l[j].is_parent => l[i].is_parent
        /\ (l[i].is_parent = l[j].is_parent) => l[i].order <= l[j].order

SameInterfaces(l, m) ==
    Len(l) = Len(m) /\ {l[i] : i \in 1..Len(l)} = {m[i] : i \in 1..Len(m)}

ConfiguredInterface(k) == CHOOSE x \in {ifsNew[i] : i \in 1..Len(ifsNew)} : x.key = k

AttachCalls == SelectSeq(calls, LAMBDA x : x.c = "instances.AttachInterface")

Attached == [i \in 1..Len(AttachCalls) |-> ConfiguredInterface(AttachCalls[i].a)]

\* C10: the interfaces of the create request, and the new interfaces an update
\* ranges over and attaches, are the configured ones with every is_parent interface
\* before every other one and, among interfaces of equal is_parent, in ascending
\* order.
C10_TrunkFirst ==
    /\ (kind = "bm" /\ op = "create" /\ Len(calls) > 1) =>
           (TrunkFirstByOrder(request) /\ SameInterfaces(request, ifsNew))
    /\ (kind = "bm" /\ op = "update") =>
           /\ (pc \in {"attach", "attached"}) =>
                  (TrunkFirstByOrder(ifs) /\ SameInterfaces(ifs, ifsNew))
           /\ TrunkFirstByOrder(Attached)

C10_Witness ==
    /\ kind = "bm" /\ op = "create" /\ pc = "done" /\ diags = "ok"
    /\ request # ifsNew /\ Len(request) = 2
    /\ request[1].is_parent /\ ~request[2].is_parent

\* the interfaces of the old configuration that the new one does not hold
RemovedInterfaces ==
    {ifsOld[i] : i \in {j \in 1..Len(ifsOld) :
                            \A k \in 1..Len(ifsNew) : ifsNew[k].key # ifsOld[j].key}}

\* C11: when an update removes an interface with is_parent from the configuration,
\* resourceBmInstanceUpdate never ends without error, ends with the error "could not
\* detach trunk interface" unless a call before that interface's turn failed, and
\* never issues DetachInterface for that interface.
C11_TrunkNotDetached ==
    (kind = "bm" /\ op = "update" /\ \E x \in RemovedInterfaces : x.is_parent) =>
        /\ pc = "done" => diags # "ok"
        /\ (pc = "done" /\ ~AnyFailed) => diags = "could not detach trunk interface"
        /\ \A i \in 1..Len(calls) : \A x \in RemovedInterfaces :
               (calls[i].c = "instances.DetachInterface" /\ calls[i].a = x.key)
                   => ~x.is_parent

C11_Witness ==
    /\ kind = "bm" /\ op = "update" /\ pc = "done"
    /\ diags = "could not detach trunk interface"
    /\ \E x \in RemovedInterfaces : x.is_parent
    /\ \E i \in 1..Len(calls) : calls[i].c = "instances.DetachInterface" /\ calls[i].r = "ok"

\* the routers.Update call of the running handler has been made
UpdateSent == \E i \in 1..Len(calls) : calls[i].c = "routers.Update"

\* C12: the request resourceRouterUpdate sends carries external_gateway_info exactly
\* when the attribute changed, is a non-empty block and has the type "manual", and
\* then it is that block; otherwise it carries the empty gateway info.
C12_OnlyManualGateway ==
    (kind = "router" /\ op = "update") =>
        /\ updateOpts.ExternalGatewayInfo.type \in {"", "manual"}
        /\ UpdateSent =>
              IF rcfg.egiChange /\ rcfg.egi # <<>> /\ rcfg.egi[1].type = "manual"
              THEN updateOpts.ExternalGatewayInfo = rcfg.egi[1]
              ELSE updateOpts.ExternalGatewayInfo = [type |-> "", network_id |-> ""]

C12_Witness ==
    /\ kind = "router" /\ op = "update" /\ pc = "done" /\ diags = "ok" /\ UpdateSent
    /\ rcfg.egiChange /\ rcfg.egi # <<>>
    /\ updateOpts.ExternalGatewayInfo.type = "manual"
    /\ updateOpts.ExternalGatewayInfo.network_id = "net"

\* the subnet IDs of the Attach and of the Detach calls made so far
CallArgs(name) ==
    LET cs == SelectSeq(calls, LAMBDA x : x.c = name)
    IN  [i \in 1..Len(cs) |-> cs[i].a]

NoDuplicates(l) == \A i \in 1..Len(l) : \A j \in 1..Len(l) : l[i] = l[j] => i = j

\* C15: resourceRouterUpdate issues Attach at most once per subnet ID and only for
\* subnet IDs of the new set that are not in the old one, Detach at most once and
\* only for subnet IDs of the old set that are not in the new one, no Attach after a
\* Detach, and by the time it calls routers.Update it has issued Attach for every
\* subnet ID only in the new set and Detach for every subnet ID only in the old one.
C15_AttachNewDetachOld ==
    (kind = "router" /\ op = "update") =>
        LET old == {rcfg.oifs[i] : i \in 1..Len(rcfg.oifs)}
            new == {rcfg.nifs[i] : i \in 1..Len(rcfg.nifs)}
            att == CallArgs("routers.Attach")
            det == CallArgs("routers.Detach")
        IN  /\ NoDuplicates(att) /\ NoDuplicates(det)
            /\ \A i \in 1..Len(att) : att[i] \in new \ old
            /\ \A i \in 1..Len(det) : det[i] \in old \ new
            /\ \A i \in 1..Len(calls) : \A j \in (i + 1)..Len(calls) :
                   calls[i].c = "routers.Detach" => calls[j].c # "routers.Attach"
            /\ UpdateSent =>
                   /\ {att[i] : i \in 1..Len(att)} = new \ old
                   /\ {det[i] : i \in 1..Len(det)} = old \ new

C15_Witness ==
    /\ kind = "router" /\ op = "update" /\ pc = "done" /\ diags = "ok" /\ UpdateSent
    /\ rcfg.oifs = <<"s1", "s2">> /\ rcfg.nifs = <<"s3", "s2">>
    /\ CallArgs("routers.Attach") = <<"s3">>
    /\ CallArgs("routers.Detach") = <<"s1">>

\* C16: when an Attach or Detach call failed it is the last call of
\* resourceRouterUpdate (nothing is undone, routers.Update is not called, the
\* router is not read again), last_updated is not set and the handler has returned
\* error diagnostics.
C16_NoRecoveryAfterAttachDetachError ==
    (kind = "router" /\ op = "update") =>
        \A i \in 1..Len(calls) :
            (calls[i].c \in {"routers.Attach", "routers.Detach"} /\ calls[i].r # "ok") =>
                /\ i = Len(calls)
                /\ pc = "done" /\ diags = "error"
                /\ ~lastUpdated
                /\ \A j \in 1..Len(calls) : calls[j].c \notin {"routers.Update", "routers.Get"}

C16_Witness ==
    /\ kind = "router" /\ op = "update" /\ pc = "done" /\ diags = "error"
    /\ Len(calls) = 3
    /\ calls[2].c = "routers.Attach" /\ calls[2].r = "ok"
    /\ calls[3].c = "routers.Detach" /\ calls[3].r = "err"

\* C13: dataSourceImageRead takes the first image of the list whose lower-cased name
\* starts with the lower-cased requested name and sets the ID and the computed
\* attributes from it, returning no diagnostics or the error of the last d.Set; when
\* no image of the list matches it returns the error "image with name ... not found"
\* and sets no ID.
StartsWithFold(str, prefix) ==
    /\ Len(prefix) <= Len(str)
    /\ \A i \in 1..Len(prefix) :
           \/ str[i] = prefix[i]
           \/ {str[i], prefix[i]} \in {{"a", "A"}, {"b", "B"}}

C13_FirstMatchingImage ==
    (kind = "image" /\ op = "read" /\ pc = "done"
        /\ \E i \in 1..Len(calls) : calls[i].c = "images.ListAll" /\ calls[i].r = "ok") =>
        LET hits == {i \in 1..Len(cloud.images) : StartsWithFold(cloud.images[i].Name, dsName)}
        IN  IF hits = {}
            THEN diags = "image not found" /\ id = "" /\ ~dsAttrs.set
            ELSE \E k \in hits :
                     /\ \A j \in hits : k <= j
                     /\ diags \in {"ok", "error"}
                     /\ id = cloud.images[k].ID
                     /\ dsAttrs.set /\ dsAttrs.min_disk = cloud.images[k].MinDisk

C13_Witness ==
    /\ kind = "image" /\ op = "read" /\ pc = "done" /\ diags = "ok"
    /\ dsName = <<"a">>
    /\ Len(cloud.images) = 2
    /\ cloud.images[1].Name = <<"A", "b">> /\ cloud.images[2].Name = <<"a">>
    /\ id = "i1"

\* C17: the member list resourceLBMemberUpdate sends has the length and order of the
\* pool's member list, every entry with another ID than the managed one carries that
\* member's address, port, weight, subnet, instance and ID, the entry with the
\* managed ID carries the configured values, and without such an entry the list is
\* the pool's.
C17_OtherMembersUnchanged ==
    (kind = "lbmember" /\ op = "update" /\ pc \in {"update", "wait"}) =>
        /\ Len(members) = Len(cloud.members)
        /\ \A i \in 1..Len(cloud.members) :
               IF cloud.members[i].ID # id
               THEN members[i] = cloud.members[i]
               ELSE members[i] = [Address |-> [ok |-> TRUE,
                                              ip |-> <<0, 0, 0, 0, 0, 0, 0, 0, 0, 0,
                                                       255, 255, 0, 255, 0, 0>>],
                                  ProtocolPort |-> 8080, Weight |-> 7, SubnetID |-> "sub2",
                                  InstanceID |-> "inst2", ID |-> id]
        /\ (\A i \in 1..Len(cloud.members) : cloud.members[i].ID # id)
               => members = cloud.members

C17_Witness ==
    /\ kind = "lbmember" /\ op = "update" /\ pc = "wait" /\ id = "r1"
    /\ Len(members) = 2
    /\ cloud.members[1].ID = "m3" /\ cloud.members[2].ID = "r1"
    /\ members[1] = cloud.members[1]
    /\ members[2].Weight = 7 /\ cloud.members[2].Weight = 1

\* C18: when two resourceLBMemberUpdate operations of two members of one pool
\* interleave and both end without error, the pool holds the new values of both
\* members.
C18_NoLostUpdate ==
    (\A p \in 1..Len(procs) : procs[p].pc = "done" /\ procs[p].diags = "ok") =>
        \A p \in 1..Len(procs) :
            \E i \in 1..Len(cloud.members) :
                /\ cloud.members[i].ID = procs[p].mid
                /\ cloud.members[i].Weight = procs[p].cfg.weight
                /\ cloud.members[i].ProtocolPort = procs[p].cfg.protocol_port

\* C19: resourceLBPoolDelete ends normally (error diagnostics or a cleared ID, no
\* read of a task from a missing result) when lbpools.Delete returned the typed
\* not-found error, and returns the error with the ID unchanged on any other error
\* of lbpools.Delete.
C19_PoolDeleteErrors ==
    (kind = "lbpool" /\ op = "delete") =>
        \A i \in 1..Len(calls) :
            calls[i].c = "lbpools.Delete" =>
                /\ calls[i].r = "notfound" => (pc = "done" => diags \in {"ok", "error"})
                /\ calls[i].r = "err" => (pc = "done" /\ diags = "error" /\ id = calls[i].a)

\* C20: when lbpools.DeleteMember returned the typed not-found error,
\* resourceLBMemberDelete has cleared the ID and returned no error without a wait on
\* a task; on any other error of DeleteMember it has returned the error and the ID
\* is the one it started with.
C20_MemberDeleteErrors ==
    (kind = "lbmember" /\ op = "delete") =>
        \A i \in 1..Len(calls) :
            calls[i].c = "lbpools.DeleteMember" =>
                /\ calls[i].r = "notfound" =>
                       /\ pc = "done" /\ diags = "ok" /\ id = ""
                       /\ \A j \in 1..Len(calls) : calls[j].c # "tasks.WaitForStatus"
                /\ calls[i].r = "err" =>
                       (pc = "done" /\ diags = "error" /\ id # "" /\ id = calls[i].a)

C20_Witness ==
    /\ kind = "lbmember" /\ op = "delete" /\ pc = "done" /\ diags = "ok" /\ id = ""
    /\ calls[Len(calls)] = [c |-> "lbpools.DeleteMember", r |-> "notfound", a |-> "r1"]

\* the i-th call is the lbpools.Get of the member delete retriever
IsPoolGet(i) == calls[i].c = "lbpools.Get"

\* C21 as stated: resourceLBMemberDelete has cleared the ID only if the delete task
\* completed and the pool was read and holds no member with the deleted ID; when
\* the pool read failed or the pool still lists the member, the handler has returned
\* an error and the ID is the one it started with.
C21_ClearsIdOnlyAfterPoolRead ==
    (kind = "lbmember" /\ op = "delete") =>
        /\ id = "" =>
              /\ CalledOk({"tasks.WaitForStatus"})
              /\ \E i \in 1..Len(calls) : IsPoolGet(i) /\ calls[i].r = "ok"
              /\ \A i \in 1..Len(calls) :
                     calls[i].c = "lbpools.DeleteMember"
                         => ~\E k \in 1..Len(cloud.members) : cloud.members[k].ID = calls[i].a
        /\ \A i \in 1..Len(calls) :
               (IsPoolGet(i) /\ (calls[i].r # "ok"
                                    \/ \E k \in 1..Len(cloud.members) : cloud.members[k].ID = id))
                   => (pc = "done" /\ diags = "error" /\ id # "" /\ id = calls[2].a)

\* C21 amended: resourceLBMemberDelete has cleared the ID only if lbpools.DeleteMember
\* returned the typed not-found error, or the delete task completed and the pool
\* was read and holds no member with the deleted ID; when the pool read failed or
\* the pool still lists the member, the handler has returned an error and the ID is
\* the one it started with.
C21_ClearsIdWhenGoneOrNotFound ==
    (kind = "lbmember" /\ op = "delete") =>
        /\ id = "" =>
              \/ \E i \in 1..Len(calls) :
                     calls[i].c = "lbpools.DeleteMember" /\ calls[i].r = "notfound"
              \/ /\ CalledOk({"lbpools.DeleteMember"})
                 /\ CalledOk({"tasks.WaitForStatus"})
                 /\ \E i \in 1..Len(calls) : IsPoolGet(i) /\ calls[i].r = "ok"
                 /\ \A i \in 1..Len(calls) :
                        calls[i].c = "lbpools.DeleteMember"
                            => ~\E k \in 1..Len(cloud.members) :
                                    cloud.members[k].ID = calls[i].a
        /\ \A i \in 1..Len(calls) :
               (IsPoolGet(i) /\ (calls[i].r # "ok"
                                    \/ \E k \in 1..Len(cloud.members) : cloud.members[k].ID = id))
                   => (pc = "done" /\ diags = "error" /\ id # "" /\ id = calls[2].a)

C21_Witness ==
    /\ kind = "lbmember" /\ op = "delete" /\ pc = "done" /\ diags = "ok" /\ id = ""
    /\ calls[2] = [c |-> "lbpools.DeleteMember", r |-> "ok", a |-> "r1"]
    /\ CalledOk({"tasks.WaitForStatus"})
    /\ IsPoolGet(Len(calls)) /\ calls[Len(calls)].r = "ok"
    /\ Len(cloud.members) = 1 /\ cloud.members[1].ID = "m3"

\* the calls of lbpools.Update the handler has made
PoolUpdateCalls == {i \in 1..Len(calls) : calls[i].c = "lbpools.Update"}

\* C22: when name, lb_algorithm, health_monitor or session_persistence differs
\* between the old and the new configuration, a resourceLBPoolUpdate that got its
\* client has issued exactly one lbpools.Update carrying the new values once it has
\* ended, and has awaited its task when the call succeeded; when none of them
\* changed it issues no Update and leaves last_updated alone.
C22_PoolUpdateSendsChanges ==
    (kind = "lbpool" /\ op = "update" /\ calls[1].r = "ok") =>
        IF rcfg.nameChange \/ rcfg.algChange \/ rcfg.hmChange \/ rcfg.spChange
        THEN /\ pc = "done" =>
                    /\ Cardinality(PoolUpdateCalls) = 1
                    /\ updateOpts.Name = IF rcfg.nameChange THEN "new" ELSE "old"
                    /\ rcfg.algChange => updateOpts.LBPoolAlgorithm = "new"
                    /\ rcfg.hmChange => updateOpts.HealthMonitor = "new"
                    /\ rcfg.spChange => updateOpts.SessionPersistence = "new"
             /\ (pc = "done" /\ CalledOk({"lbpools.Update"}))
                    => \E i \in 1..Len(calls) : calls[i].c = "tasks.WaitForStatus"
        ELSE PoolUpdateCalls = {} /\ ~lastUpdated

====
